---------------------------- MODULE Spec2Model ----------------------------
(***************************************************************************)
(* A model of the core of the embedded_utau vocal synthesis engine:        *)
(*   - voice_library.py : VoiceLibrary.add_sample / get_best_sample        *)
(*   - synthesis_engine.py : the note renderer with its render cache, the  *)
(*     track mixer and the master bus                                      *)
(* Python strings are sequences of one-character atoms.  numpy arrays are   *)
(* heap objects; the content of an array is the sequence of operations     *)
(* that produced it, so equal contents are bit-identical arrays.  Where    *)
(* the values themselves matter (the master bus) they are floats in        *)
(* hundredths, with NaN and the infinities.                                *)
(***************************************************************************)
EXTENDS Integers, Sequences, FiniteSets, TLC

VARIABLES
    samples,        \* VoiceLibrary.samples: insertion-ordered dict lyric -> list of VoiceSample
    added,          \* history: file paths in the order add_sample stored them
    call            \* history: the get_best_sample call just made (NoCall after another operation)

libVars == <<samples, added, call>>

VARIABLES
    heap,           \* the numpy arrays alive in the engine and its caller: ref -> buffer
    sample_data,    \* VoiceSample.sample_data of each sample file: a ref, 0 for None
    sample_cache,   \* SynthesisEngine.sample_cache: insertion-ordered dict key -> ref
    ret,            \* the array the caller holds from the last synthesize_note_safe (0: none)
    last,           \* history: the synthesize_note_safe call (or caller's write) just made;
                    \* rewritten: the caller had just written into the array returned
                    \* for the same key
    ledger,         \* history: for each insertion still resident, what was stored and when
    stamp           \* history: number of cache insertions so far

engVars == <<heap, sample_data, sample_cache, ret, last, ledger, stamp>>
VARIABLES
    project,        \* the Project: [tracks, total_duration]
    voice_libraries,\* SynthesisEngine.voice_libraries: library path -> [loaded, samples]
    pc,             \* where synthesize_project is: "idle", "tracks", "done"
    idx,            \* the track the loop of synthesize_project is at
    master_output,  \* master_output of synthesize_project; its return value when done
    rendered,       \* history: the tracks mixed into master_output, in order
    begin           \* history: the engine as it was when synthesize_project was called

prjVars == <<project, voice_libraries, pc, idx, master_output, rendered, begin>>

VARIABLES
    bus             \* the sample values on the way to the master buffer: [track, master,
                    \* out, steps, pc, stages, env, exported]; stages and env are
                    \* history: the buffers the stages of master_processing assigned,
                    \* and what the equalizer did and which stage raised; exported is
                    \* the buffer given to export_audio and the values it wrote

VARIABLES
    trk             \* one Track and the synthesize_track call on it: [notes, pc, pos, out,
                    \* picks, begin, first]; first is the length track_output was
                    \* created with; out is track_output, picks the file path of the
                    \* sample chosen for each note so far (0: None), begin the library
                    \* and the engine as they were when the call was made

VARIABLES
    constructed     \* the Note constructed last: [given, note], given the arguments of
                    \* the constructor, note the fields of the object; times in
                    \* hundredths of a second, as floats

VARIABLES
    xf              \* one crossfade_repeat call that lengthens: [current, target, pos,
                    \* written, faded, pc]; current is len(audio_data), target is
                    \* target_samples, pos the write position, written the indices of
                    \* result assigned so far, faded how many of them were crossfaded

VARIABLES
    doc             \* a Project and the file it was saved to: [name, settings, tracks,
                    \* current_track_index, file, saved, last]; file is the JSON
                    \* written by save_project, saved (history) the project as it was
                    \* when it was written, last (history) the call made last

vars == <<samples, added, call, heap, sample_data, sample_cache, ret, last, ledger,
          stamp, project, voice_libraries, pc, idx, master_output, rendered, begin, bus, trk, constructed, xf, doc>>

(***************************************************************************)
(* Strings                                                                 *)
(***************************************************************************)
Abs(x) == IF x < 0 THEN -x ELSE x
Min(a, b) == IF a <= b THEN a ELSE b
Max(a, b) == IF a >= b THEN a ELSE b

\* str.upper() / str.lower() on the characters the model uses
Upper(c) ==
    CASE c = "a" -> "A" [] c = "b" -> "B" [] c = "c" -> "C" [] c = "d" -> "D"
      [] c = "e" -> "E" [] c = "f" -> "F" [] c = "g" -> "G" [] c = "h" -> "H"
      [] c = "k" -> "K" [] c = "l" -> "L" [] c = "o" -> "O" [] c = "x" -> "X"
      [] OTHER -> c

Lower(c) ==
    CASE c = "A" -> "a" [] c = "B" -> "b" [] c = "C" -> "c" [] c = "D" -> "d"
      [] c = "E" -> "e" [] c = "F" -> "f" [] c = "G" -> "g" [] c = "H" -> "h"
      [] c = "K" -> "k" [] c = "L" -> "l" [] c = "O" -> "o" [] c = "X" -> "x"
      [] OTHER -> c

UpperStr(s) == [i \in 1..Len(s) |-> Upper(s[i])]
LowerStr(s) == [i \in 1..Len(s) |-> Lower(s[i])]

\* Python's  needle in hay  on strings
Contains(needle, hay) ==
    \E i \in 0..(Len(hay) - Len(needle)) :
        SubSeq(hay, i + 1, i + Len(needle)) = needle

Digits == {"0", "1", "2", "3", "4", "5", "6", "7", "8", "9"}
DigitValue(c) ==
    CASE c = "0" -> 0 [] c = "1" -> 1 [] c = "2" -> 2 [] c = "3" -> 3
      [] c = "4" -> 4 [] c = "5" -> 5 [] c = "6" -> 6 [] c = "7" -> 7
      [] c = "8" -> 8 [] c = "9" -> 9

\* the characters of s that satisfy Keep, in order
RECURSIVE FilterChars(_, _)
FilterChars(s, drop) ==
    IF s = <<>> THEN <<>>
    ELSE IF Head(s) \in drop THEN FilterChars(Tail(s), drop)
    ELSE <<Head(s)>> \o FilterChars(Tail(s), drop)

\* length of the longest run of digits at the start of s
RECURSIVE DigitRun(_)
DigitRun(s) ==
    IF s = <<>> \/ Head(s) \notin Digits THEN 0 ELSE 1 + DigitRun(Tail(s))


\* int() of a string of digits
RECURSIVE ParseInt(_, _)
ParseInt(s, acc) ==
    IF s = <<>> THEN acc ELSE ParseInt(Tail(s), 10 * acc + DigitValue(Head(s)))

\* re.findall(r'\d+', s)[0] as a string of digits, <<>> when s holds no digit
RECURSIVE FirstNumber(_)
FirstNumber(s) ==
    IF s = <<>> THEN <<>>
    ELSE IF Head(s) \in Digits THEN SubSeq(s, 1, DigitRun(s))
    ELSE FirstNumber(Tail(s))

(***************************************************************************)
(* VoiceLibrary: deriving pitch and lyric from a file name                 *)
(***************************************************************************)
\* the note names of one octave of pitch_patterns, without the octave digit
NoteNames ==
    << << <<"C">> >>,            << <<"C", "#">>, <<"D", "b">> >>,
       << <<"D">> >>,            << <<"D", "#">>, <<"E", "b">> >>,
       << <<"E">> >>,            << <<"F">> >>,
       << <<"F", "#">>, <<"G", "b">> >>, << <<"G">> >>,
       << <<"G", "#">>, <<"A", "b">> >>, << <<"A">> >>,
       << <<"A", "#">>, <<"B", "b">> >>, << <<"B">> >> >>

OctaveDigit == <<"1", "2", "3", "4", "5", "6">>
FirstPitch == 24
PatternCount == 72

\* pitch_patterns[k] = (names, midi) for k = 1..72, in the order of the table
PatternNames(k) ==
    LET stems == NoteNames[((k - 1) % 12) + 1]
        digit == OctaveDigit[((k - 1) \div 12) + 1]
    IN  [i \in 1..Len(stems) |-> stems[i] \o <<digit>>]
PatternPitch(k) == FirstPitch + (k - 1)

PatternMatches(k, filename_upper) ==
    \E i \in 1..Len(PatternNames(k)) : Contains(PatternNames(k)[i], filename_upper)

MinPitch == 24
MaxPitch == 95
DefaultPitch == 60

ExtractPitchFromFilename(filename) ==
    LET filename_upper == UpperStr(filename)
        hits == {k \in 1..PatternCount : PatternMatches(k, filename_upper)}
        numbers == FirstNumber(filename)
        number == ParseInt(numbers, 0)
    IN  IF hits # {}
        THEN PatternPitch(CHOOSE k \in hits : \A j \in hits : k <= j)
        ELSE IF numbers # <<>> /\ MinPitch <= number /\ number <= MaxPitch THEN number
        ELSE DefaultPitch

\* character classes of extract_lyric_from_filename
PitchLetters == {"A", "B", "C", "D", "E", "F", "G"}
Accidentals == {"#", "B"}
Separators == {".", "_", "-"}
JapaneseChars == {"kana_a", "kana_ka"}
ChineseChars == {"han_a"}
KoreanChars == {"hangul_ga"}

\* length of the match of [A-G][#b]?\d+ (re.IGNORECASE) at the start of s, 0 if none
PitchMarkLen(s) ==
    IF s = <<>> \/ Upper(Head(s)) \notin PitchLetters THEN 0
    ELSE LET rest == Tail(s)
         IN  IF rest # <<>> /\ Upper(Head(rest)) \in Accidentals /\ DigitRun(Tail(rest)) > 0
             THEN 2 + DigitRun(Tail(rest))
             ELSE IF DigitRun(rest) > 0 THEN 1 + DigitRun(rest)
             ELSE 0

\* re.sub(r'[A-G][#b]?\d+', '', s, flags=re.IGNORECASE)
RECURSIVE RemovePitchMarks(_)
RemovePitchMarks(s) ==
    IF s = <<>> THEN <<>>
    ELSE IF PitchMarkLen(s) > 0
         THEN RemovePitchMarks(SubSeq(s, PitchMarkLen(s) + 1, Len(s)))
         ELSE <<Head(s)>> \o RemovePitchMarks(Tail(s))

\* re.findall(class, s): the characters of s in the class, in order
RECURSIVE FindAll(_, _)
FindAll(s, class) ==
    IF s = <<>> THEN <<>>
    ELSE IF Head(s) \in class THEN <<Head(s)>> \o FindAll(Tail(s), class)
    ELSE FindAll(Tail(s), class)

CommonSyllables ==
    { <<c, v>> : c \in {"l", "r", "m", "n", "p", "b"}, v \in {"a", "e", "i", "o", "u"} }

NoAlias == <<"<none>">>

\* file is [path, stem, alias]: alias is the oto.ini alias of the stem, NoAlias if
\* oto_ini_data has no entry (or no 'alias' key) for it
ExtractLyricFromFilename(filename, alias) ==
    LET cleaned == FilterChars(FilterChars(RemovePitchMarks(filename), Digits), Separators)
        japanese_chars == FindAll(cleaned, JapaneseChars)
        chinese_chars == FindAll(cleaned, ChineseChars)
        korean_chars == FindAll(cleaned, KoreanChars)
    IN  IF alias # NoAlias THEN alias
        ELSE IF japanese_chars # <<>> THEN <<japanese_chars[1]>>
        ELSE IF chinese_chars # <<>> THEN <<chinese_chars[1]>>
        ELSE IF korean_chars # <<>> THEN <<korean_chars[1]>>
        ELSE IF Len(cleaned) >= 2 /\ LowerStr(SubSeq(cleaned, 1, 2)) \in CommonSyllables
             THEN LowerStr(SubSeq(cleaned, 1, 2))
        ELSE IF cleaned # <<>> THEN <<cleaned[1]>>
        ELSE IF Len(filename) >= 2 THEN SubSeq(filename, 1, 2) ELSE filename

(***************************************************************************)
(* VoiceLibrary.samples: a Python dict, i.e. a sequence of entries          *)
(* [lyric, list] in the order in which the keys were first inserted         *)
(***************************************************************************)
NoSample == [file_path |-> 0, pitch |-> 0, lyric |-> <<"<none>">>]   \* Python None

HasKey(smp, lyric) == \E i \in 1..Len(smp) : smp[i].lyric = lyric
KeyIndex(smp, lyric) == CHOOSE i \in 1..Len(smp) : smp[i].lyric = lyric
Get(smp, lyric) == smp[KeyIndex(smp, lyric)].list
Keys(smp) == [i \in 1..Len(smp) |-> smp[i].lyric]

\* audio files of a library folder: [path, stem, alias]; the alias is the one
\* oto.ini gives for the stem
FileTable ==
    << [path |-> 1, stem |-> <<"a", "_", "C", "4">>, alias |-> NoAlias],
       [path |-> 2, stem |-> <<"a", "_", "E", "4">>, alias |-> NoAlias],
       [path |-> 3, stem |-> <<"x", "1">>, alias |-> <<"o", "k", "a">>],
       [path |-> 4, stem |-> <<"x", "_", "D", "b", "4">>, alias |-> <<"c", "a">>],
       [path |-> 5, stem |-> <<"a", "6", "2">>, alias |-> NoAlias],
       [path |-> 6, stem |-> <<"A", "_", "G", "#", "4">>, alias |-> NoAlias],
       [path |-> 7, stem |-> <<"kana_ka", "_", "D", "b", "4">>, alias |-> NoAlias] >>

\* what add_sample derives from each file of the table (evaluated once)
DerivedPitch == [i \in 1..Len(FileTable) |-> ExtractPitchFromFilename(FileTable[i].stem)]
DerivedLyric ==
    [i \in 1..Len(FileTable) |->
        ExtractLyricFromFilename(FileTable[i].stem, FileTable[i].alias)]

\* add_sample: the sample is appended to the list of its lyric, which is created
\* (at the end of the dict) when the lyric is new
AddSampleTo(smp, file) ==
    LET pitch == DerivedPitch[file.path]     \* extract_pitch_from_filename(filename)
        lyric == DerivedLyric[file.path]     \* extract_lyric_from_filename(filename)
        sample == [file_path |-> file.path, pitch |-> pitch, lyric |-> lyric]
    IN  IF HasKey(smp, lyric)
        THEN [smp EXCEPT ![KeyIndex(smp, lyric)].list = Append(@, sample)]
        ELSE Append(smp, [lyric |-> lyric, list |-> <<sample>>])

\* is_similar_pronunciation
PronunciationGroups ==
    { {<<"a">>, <<"a", "h">>, <<"a", "a">>},
      {<<"i">>, <<"e", "e">>, <<"i", "i">>},
      {<<"u">>, <<"o", "o">>, <<"u", "u">>},
      {<<"e">>, <<"e", "h">>},
      {<<"o">>, <<"o", "h">>},
      {<<"k", "a">>, <<"c", "a">>},
      {<<"k", "i">>, <<"k", "e", "y">>},
      {<<"k", "u">>, <<"c", "o", "o">>},
      {<<"k", "e">>, <<"k", "a", "y">>},
      {<<"k", "o">>, <<"c", "o">>} }

IsSimilarPronunciation(lyric1, lyric2) ==
    IF Len(lyric1) = 0 \/ Len(lyric2) = 0 THEN FALSE
    ELSE \E group \in PronunciationGroups :
            LowerStr(lyric1) \in group /\ LowerStr(lyric2) \in group

\* find_similar_lyrics: one pass over the keys in dict order
RECURSIVE FindSimilarLoop(_, _, _)
FindSimilarLoop(keys, target_lyric, similar) ==
    IF keys = <<>> THEN similar
    ELSE LET lyric == Head(keys)
             next == IF target_lyric = lyric THEN <<lyric>> \o similar
                     ELSE IF Contains(target_lyric, lyric) \/ Contains(lyric, target_lyric)
                          THEN Append(similar, lyric)
                     ELSE IF IsSimilarPronunciation(target_lyric, lyric)
                          THEN Append(similar, lyric)
                     ELSE similar
         IN  FindSimilarLoop(Tail(keys), target_lyric, next)

\* a faulty variant: only substring containment counts, the pronunciation groups
\* are ignored
FindSimilarLyricsNoGroups(smp, target_lyric) ==
    SelectSeq(Keys(smp), LAMBDA lyric :
        Contains(target_lyric, lyric) \/ Contains(lyric, target_lyric))

FindSimilarLyrics(smp, target_lyric) == FindSimilarLoop(Keys(smp), target_lyric, <<>>)

\* list.sort(key=lambda x: abs(x.pitch - target_pitch)): a stable sort
RECURSIVE InsertByDistance(_, _, _)
InsertByDistance(x, sorted, target_pitch) ==
    IF sorted = <<>> THEN <<x>>
    ELSE IF Abs(x.pitch - target_pitch) <= Abs(Head(sorted).pitch - target_pitch)
         THEN <<x>> \o sorted
         ELSE <<Head(sorted)>> \o InsertByDistance(x, Tail(sorted), target_pitch)

\* a faulty variant: the candidates are not sorted at all
SortByDistanceUnsorted(list, target_pitch) == list

RECURSIVE SortByDistance(_, _)
SortByDistance(list, target_pitch) ==
    IF list = <<>> THEN <<>>
    ELSE LET rest == SortByDistance(Tail(list), target_pitch)
         IN  InsertByDistance(Head(list), rest, target_pitch)

CloseRange == 3

\* [s for s in available_samples if abs(s.pitch - target_pitch) <= 3]
CloseSamples(list, target_pitch) ==
    SelectSeq(list, LAMBDA s : Abs(s.pitch - target_pitch) <= CloseRange)

\* get_best_sample: [ret, resolved, samples], where samples is the dict after the
\* call (the fall-back branch sorts the list of the resolved lyric in place)
GetBestSample(smp, lyric, target_pitch) ==
    LET missing == ~HasKey(smp, lyric) \/ Get(smp, lyric) = <<>>
        similar_lyrics == FindSimilarLyrics(smp, lyric)
    IN  IF missing /\ similar_lyrics = <<>>
        THEN [ret |-> NoSample, resolved |-> lyric, samples |-> smp]
        ELSE LET resolved == IF missing THEN similar_lyrics[1] ELSE lyric
                 available_samples == Get(smp, resolved)
                 close_samples == CloseSamples(available_samples, target_pitch)
             IN  IF close_samples # <<>>
                 THEN [ret |-> SortByDistance(close_samples, target_pitch)[1],
                       resolved |-> resolved, samples |-> smp]
                 ELSE LET sorted == SortByDistance(available_samples, target_pitch)
                      IN  [ret |-> sorted[1], resolved |-> resolved,
                           samples |-> [smp EXCEPT ![KeyIndex(smp, resolved)].list = sorted]]

(***************************************************************************)
(* The library under add_sample and get_best_sample                        *)
(***************************************************************************)
MaxFiles == 4
AudioFiles == {FileTable[i] : i \in 1..Min(MaxFiles, Len(FileTable))}

RequestLyrics == {<<"a">>, <<"k", "a">>, <<"a", "h">>, <<"z", "z">>, <<"A">>}
RequestPitches == {61, 62, 68}

NoCall == [made |-> FALSE, lyric |-> <<>>, target_pitch |-> 0, ret |-> NoSample,
           resolved |-> <<>>]

LibInit ==
    /\ samples = <<>>
    /\ added = <<>>
    /\ call = NoCall

\* VoiceLibrary.add_sample(audio_file), as load_library calls it for each file found
AddSample(file) ==
    /\ \A i \in 1..Len(added) : added[i] # file.path
    /\ samples' = AddSampleTo(samples, file)
    /\ added' = Append(added, file.path)
    /\ call' = NoCall
    /\ UNCHANGED <<engVars, prjVars, bus, trk, constructed, xf, doc>>

\* VoiceLibrary.get_best_sample(lyric, target_pitch)
CallGetBestSample(lyric, target_pitch) ==
    LET r == GetBestSample(samples, lyric, target_pitch)
    IN  /\ samples' = r.samples
        /\ call' = [made |-> TRUE, lyric |-> lyric, target_pitch |-> target_pitch,
                    ret |-> r.ret, resolved |-> r.resolved]
        /\ UNCHANGED added
        /\ UNCHANGED <<engVars, prjVars, bus, trk, constructed, xf, doc>>

NextLib ==
    \/ \E file \in AudioFiles : AddSample(file)
    \/ \E lyric \in RequestLyrics, target_pitch \in RequestPitches :
            CallGetBestSample(lyric, target_pitch)

(***************************************************************************)
(* Properties of sample selection                                          *)
(***************************************************************************)
Distance(s) == Abs(s.pitch - call.target_pitch)
ResolvedList == Get(samples, call.resolved)
ListSet(list) == {list[i] : i \in 1..Len(list)}
AddedAt(path) == CHOOSE i \in 1..Len(added) : added[i] = path
Returned == call.made /\ call.ret # NoSample

\* the stored lyrics that satisfy a similarity condition with the requested one
SimilarTo(lyric) ==
    {k \in ListSet(Keys(samples)) :
        \/ Contains(lyric, k)
        \/ Contains(k, lyric)
        \/ IsSimilarPronunciation(lyric, k)}

\* C3: among the samples of the resolved lyric that are at the minimal pitch
\* distance from the target, get_best_sample returns the one added first
C3_TieKeepsInsertionOrder ==
    Returned =>
        \A s \in ListSet(ResolvedList) :
            (\A t \in ListSet(ResolvedList) : Distance(s) <= Distance(t))
                => AddedAt(call.ret.file_path) <= AddedAt(s.file_path)

\* C8: a request for a lyric without samples returns a sample of a similar stored
\* lyric whenever one exists, and None exactly when none exists
C8_SimilarLyricFallback ==
    (call.made /\ ~HasKey(samples, call.lyric)) =>
        /\ (SimilarTo(call.lyric) # {}) =>
                /\ call.ret # NoSample
                /\ call.ret.lyric \in SimilarTo(call.lyric)
                /\ call.ret \in ListSet(Get(samples, call.ret.lyric))
        /\ (SimilarTo(call.lyric) = {}) <=> (call.ret = NoSample)

C8_Witness ==
    /\ call.made
    /\ call.lyric = <<"k", "a">>
    /\ ~HasKey(samples, call.lyric)
    /\ SimilarTo(call.lyric) = {<<"o", "k", "a">>}
    /\ call.ret.lyric = <<"o", "k", "a">>

\* the requested lyric and the stored one are related by substring containment
ByContainment(lyric, k) == Contains(lyric, k) \/ Contains(k, lyric)

\* C21: for a requested lyric without samples, every stored lyric related to it by
\* substring containment comes, in the candidate list, before every stored lyric
\* related to it only by a pronunciation group, in whatever order the lyrics
\* were added; get_best_sample uses the first entry of the list
C21_ContainmentBeforeGroups ==
    (call.made /\ ~HasKey(samples, call.lyric)) =>
        LET similar == FindSimilarLyrics(samples, call.lyric)
        IN  /\ \A i, j \in 1..Len(similar) :
                  (ByContainment(call.lyric, similar[i])
                      /\ ~ByContainment(call.lyric, similar[j])) => i < j
            /\ similar # <<>> => call.resolved = similar[1]

\* the part of C21 that holds: the candidates are the similar stored lyrics in the
\* order of their first addition, and the first one is used
C21_CandidatesInAdditionOrder ==
    (call.made /\ ~HasKey(samples, call.lyric)) =>
        LET similar == FindSimilarLyrics(samples, call.lyric)
        IN  /\ similar = SelectSeq(Keys(samples), LAMBDA k : k \in SimilarTo(call.lyric))
            /\ similar # <<>> => call.resolved = similar[1]

\* the samples of the library
StoredSamples == UNION {ListSet(samples[i].list) : i \in 1..Len(samples)}

\* C26: the pitch derived from a file name lies in 24..95; a name that contains a
\* note name of the table, in any spelling the table lists (sharp or flat), gets
\* that entry's pitch; otherwise the first number in the name if it lies in
\* 24..95; otherwise 60
C26_PitchFromFilename ==
    \A s \in StoredSamples :
        LET filename == FileTable[s.file_path].stem
            named == {k \in 1..PatternCount :
                        \E i \in 1..Len(PatternNames(k)) :
                            Contains(PatternNames(k)[i], filename)}
            number == ParseInt(FirstNumber(filename), 0)
        IN  /\ s.pitch \in MinPitch..MaxPitch
            /\ \A k \in named : s.pitch = PatternPitch(k)
            /\ named = {} =>
                  s.pitch = IF FirstNumber(filename) # <<>> /\ number \in MinPitch..MaxPitch
                            THEN number ELSE DefaultPitch

\* the part of C26 that holds: the range, and the names spelled without a flat
C26_PitchInRange ==
    \A s \in StoredSamples :
        LET filename == FileTable[s.file_path].stem
            named == {k \in 1..PatternCount :
                        Contains(PatternNames(k)[1], filename)}
        IN  /\ s.pitch \in MinPitch..MaxPitch
            /\ \A k \in named : s.pitch = PatternPitch(k)

\* C9: the returned sample is a sample of the resolved lyric; if one lies within 3
\* semitones of the target the returned one does, and is closest among those;
\* otherwise it is closest among all samples of the lyric
C9_ClosestPitch ==
    Returned =>
        LET all == ListSet(ResolvedList)
            close == {s \in all : Distance(s) <= 3}
        IN  /\ call.ret \in all
            /\ (close # {}) =>
                    /\ call.ret \in close
                    /\ \A s \in close : Distance(call.ret) <= Distance(s)
            /\ (close = {}) => \A s \in all : Distance(call.ret) <= Distance(s)

\* two close samples at different distances, the nearer one stored second
C9_WitnessClose ==
    /\ Returned
    /\ \E s \in ListSet(ResolvedList) :
            /\ Distance(s) <= 3
            /\ Distance(call.ret) < Distance(s)
            /\ AddedAt(s.file_path) < AddedAt(call.ret.file_path)

C9_WitnessFar ==
    /\ Returned
    /\ Cardinality(ListSet(ResolvedList)) >= 2
    /\ \A s \in ListSet(ResolvedList) : Distance(s) > 3

(***************************************************************************)
(* Audio buffers.  A buffer is [len, data]: its length in samples and a     *)
(* description of its content as the sequence of operations that produced   *)
(* it (equal descriptions mean bit-identical content).  Buffers live in a   *)
(* heap, so that copies and aliases of a numpy array can be told apart.     *)
(***************************************************************************)
SampleRate == 48000            \* SynthesisEngine.sample_rate
VoiceSampleRate == 44100       \* VoiceSample.sample_rate
TicksPerSample == 4            \* durations are counted in 1/(4 * SampleRate) seconds

Tok(op, a, b) == [op |-> op, a |-> a, b |-> b]
Buf(len, data) == [len |-> len, data |-> data]
Zeros(n) == Buf(n, <<Tok("zeros", n, 0)>>)
Apply(buf, len, tok) == Buf(len, Append(buf.data, tok))

\* int(duration * sample_rate) and round(duration * sample_rate) of a duration in ticks
\* (int() drops the fraction of a negative number too)
IntSamples(ticks) ==
    IF ticks >= 0 THEN ticks \div TicksPerSample ELSE -((-ticks) \div TicksPerSample)
RoundSamples(ticks) ==
    LET q == ticks \div TicksPerSample
        r == ticks % TicksPerSample
    IN  IF 2 * r > TicksPerSample \/ (2 * r = TicksPerSample /\ q % 2 = 1)
        THEN q + 1 ELSE q

\* what decoding each sample file gives: ok = librosa.load succeeds, len = samples read
DecodeTable ==
    << [ok |-> TRUE,  len |-> 22050],
       [ok |-> TRUE,  len |-> 900],
       [ok |-> TRUE,  len |-> 0],
       [ok |-> FALSE, len |-> 0],
       [ok |-> TRUE,  len |-> 3000],
       [ok |-> TRUE,  len |-> 44100],
       [ok |-> TRUE,  len |-> 5] >>

\* the VoiceSample add_sample builds for a file of the table
SampleOf(i) == [file_path |-> i, pitch |-> DerivedPitch[i], lyric |-> DerivedLyric[i]]

\* VoiceSample.load_sample: decodes when sample_data is None; [heap, sample_data]
Decode(path) ==
    IF DecodeTable[path].ok THEN Buf(DecodeTable[path].len, <<Tok("decode", path, 0)>>)
    ELSE Zeros(VoiceSampleRate)

LoadSample(h, sd, path) ==
    IF sd[path] # 0 THEN [heap |-> h, sample_data |-> sd]
    ELSE [heap |-> Append(h, Decode(path)), sample_data |-> [sd EXCEPT ![path] = Len(h) + 1]]

(***************************************************************************)
(* The stages of the note pipeline.  A stage takes s = [heap, ref, raised]: *)
(* the heap, the ref of the stage's input array, and whether an earlier     *)
(* stage raised; it gives the same for its output.                          *)
(***************************************************************************)
Stage(h, r) == [heap |-> h, ref |-> r, raised |-> FALSE]
Raise(h) == [heap |-> h, ref |-> 0, raised |-> TRUE]
LenOf(s) == s.heap[s.ref].len
\* a new array holding buf
New(h, buf) == Stage(Append(h, buf), Len(h) + 1)
\* a new array: the input of the stage changed by tok, len samples long
Derive(s, len, tok) == New(s.heap, Apply(s.heap[s.ref], len, tok))
\* an in-place change of the stage's input array
InPlace(s, tok) == Stage([s.heap EXCEPT ![s.ref] = Apply(@, @.len, tok)], s.ref)

FadeLimit == 100
\* a faulty variant: the mean is not removed, and the stages that follow work on
\* the array they were given
RemoveMeanSkipped(s) == s
\* audio_data = audio_data - np.mean(audio_data)
RemoveMean(s) == Derive(s, LenOf(s), Tok("sub_mean", 0, 0))
\* audio_data[:fade_samples] *= fade_in; audio_data[-fade_samples:] *= fade_out
FadeEnds(s) ==
    IF Min(FadeLimit, LenOf(s) \div 10) > 0
    THEN InPlace(s, Tok("fade", Min(FadeLimit, LenOf(s) \div 10), 0))
    ELSE s
\* np.tanh(audio_data * compression_ratio) / compression_ratio
SoftCompress(s) == Derive(s, LenOf(s), Tok("tanh", 0, 0))

PreprocessSample(s) == IF s.raised THEN s ELSE SoftCompress(FadeEnds(RemoveMean(s)))

MaxShift == 24
SmallShift == 6
FftSmall == 2048
FftLarge == 4096
FftFallback == 1024
\* the n_fft safe_pitch_shift settles on for a buffer of len samples
ShiftWindow(len, semitones) ==
    LET wanted == IF Abs(semitones) <= SmallShift THEN FftSmall ELSE FftLarge
    IN  IF len < wanted THEN FftFallback ELSE wanted

\* safe_pitch_shift; fails: librosa.effects.pitch_shift raises
SafePitchShift(s, semitones, fails) ==
    LET clamped == Max(-MaxShift, Min(MaxShift, semitones))
    IN  IF LenOf(s) < ShiftWindow(LenOf(s), clamped) THEN s
        ELSE IF fails THEN s
        ELSE Derive(s, LenOf(s), Tok("pitch_shift", clamped, ShiftWindow(LenOf(s), clamped)))

MaxFadeOut == 512
MaxOverlap == 256

\* the while loop of crossfade_repeat, from write position pos: the sequence of
\* positions the loop passes through, ending with the position at which it stops
RECURSIVE CrossfadeLoop(_, _, _)
CrossfadeLoop(current_samples, target_samples, pos) ==
    IF ~(pos < target_samples) THEN <<pos>>
    ELSE <<pos>> \o CrossfadeLoop(current_samples, target_samples,
                                  pos + Min(current_samples, target_samples - pos))

\* the shortening branch of crossfade_repeat.  The last fade_out_len samples of
\* the cut buffer are multiplied in place by a ramp of fade_out_len values:
\* numpy raises when the slice shortened[-fade_out_len:], which is as long as the
\* cut buffer at most, and the ramp cannot be broadcast together
FadeOutCut(s, fade_out_len) ==
    IF fade_out_len > 0
    THEN IF Min(fade_out_len, LenOf(s)) # fade_out_len /\ fade_out_len # 1
         THEN Raise(s.heap)
         ELSE InPlace(s, Tok("fade_out", fade_out_len, 0))
    ELSE s

\* the lengthening branch: result = np.zeros(target_samples), filled by the loop
Tile(s, target_samples, positions) ==
    Derive(s, target_samples, Tok("tile", LenOf(s), Len(positions) - 1))

CrossfadeRepeat(s, target_samples) ==
    IF LenOf(s) >= target_samples
    THEN FadeOutCut(Derive(s, target_samples, Tok("cut", target_samples, 0)),
                    Min(LenOf(s) - target_samples, MaxFadeOut))
    ELSE Tile(s, target_samples, CrossfadeLoop(LenOf(s), target_samples, 0))

\* a faulty variant: the stretched array is returned as librosa gave it
FitLengthSkipped(s, target_samples) == s
\* lines 316-321: the stretched array cut or zero-padded to target_samples
FitLength(s, target_samples) ==
    IF LenOf(s) > target_samples
    THEN Derive(s, target_samples, Tok("trim", target_samples, 0))
    ELSE IF LenOf(s) < target_samples
         THEN Derive(s, target_samples, Tok("pad", target_samples - LenOf(s), 0))
         ELSE s

\* librosa.effects.time_stretch: target_samples + delta samples
Vocoder(s, target_samples, delta) ==
    Derive(s, Max(0, target_samples + delta), Tok("time_stretch", target_samples, 0))

\* 0.5 <= target_samples / current_samples <= 2.0
RatioInRange(current_samples, target_samples) ==
    2 * target_samples >= current_samples /\ target_samples <= 2 * current_samples

\* time_stretch_safe.  vocoder is what librosa.effects.time_stretch does with this
\* input: [raises, delta]
TimeStretchSafe(s, target_samples, vocoder) ==
    IF s.raised THEN s
    ELSE IF LenOf(s) = target_samples THEN s
    ELSE IF LenOf(s) = 0 THEN Raise(s.heap)          \* target_samples / 0
    ELSE IF RatioInRange(LenOf(s), target_samples) /\ ~vocoder.raises
         THEN FitLength(Vocoder(s, target_samples, vocoder.delta), target_samples)
    ELSE CrossfadeRepeat(s, target_samples)

EnvelopeMinLength == 10
MaxAttack == 1500
MaxRelease == 3500
ApplyNoteEnvelope(s) ==
    IF s.raised THEN s
    ELSE IF LenOf(s) < EnvelopeMinLength THEN s
    ELSE Derive(s, LenOf(s), Tok("envelope", Min((15 * LenOf(s)) \div 100, MaxAttack),
                                 Min((35 * LenOf(s)) \div 100, MaxRelease)))

SmoothMinLength == 3
ClipLevel == 95
\* np.nan_to_num and np.clip each give a new array
ClipFinite(s) == Derive(s, LenOf(s), Tok("nan_to_num_clip", ClipLevel, 0))
\* audio_data[1:-1] = 0.25 * audio_data[:-2] + 0.5 * audio_data[1:-1] + 0.25 * audio_data[2:]
Smooth(s) == IF LenOf(s) > SmoothMinLength THEN InPlace(s, Tok("smooth", 0, 0)) ELSE s

FinalSafetyCheck(s) == IF s.raised THEN s ELSE Smooth(ClipFinite(s))

(***************************************************************************)
(* The render cache: a Python dict, a sequence of [key, ref] in insertion   *)
(* order.  The key f"{file_path}_{pitch}_{duration}" is the triple: neither *)
(* the integer pitch nor the duration printed as a number holds a "_", so   *)
(* two keys are equal exactly when the three parts are.                     *)
(***************************************************************************)
CacheKey(note, sample) == <<sample.file_path, note.pitch, note.duration>>
CacheHas(cache, key) == \E i \in 1..Len(cache) : cache[i].key = key
CacheGet(cache, key) == cache[CHOOSE i \in 1..Len(cache) : cache[i].key = key].ref
\* cache[key] = ref
CacheSet(cache, key, ref) ==
    IF CacheHas(cache, key)
    THEN [i \in 1..Len(cache) |-> IF cache[i].key = key THEN [key |-> key, ref |-> ref]
                                  ELSE cache[i]]
    ELSE Append(cache, [key |-> key, ref |-> ref])
\* cache.pop(next(iter(cache)))
CachePopFirst(cache) == Tail(cache)

CacheLimit == 100

\* lines 228-229: make room when the cache is over its limit
MakeRoom(cache) == IF Len(cache) > CacheLimit THEN CachePopFirst(cache) ELSE cache

\* a faulty variant: the cache keeps the array that is returned, not a copy
CacheStoreShared(s, cache, key) ==
    [heap |-> s.heap, sample_cache |-> CacheSet(MakeRoom(cache), key, s.ref)]
\* line 230: self.sample_cache[cache_key] = audio_data.copy()
CacheStore(s, cache, key) ==
    [heap |-> Append(s.heap, s.heap[s.ref]),
     sample_cache |-> CacheSet(MakeRoom(cache), key, Len(s.heap) + 1)]

\* line 198: return self.sample_cache[cache_key].copy()
CacheHit(h, cache, key) == New(h, h[CacheGet(cache, key)])

\* a faulty variant: a hit moves the entry to the end, as an LRU cache would
CacheTouched(cache, key) ==
    SelectSeq(cache, LAMBDA e : e.key # key) \o SelectSeq(cache, LAMBDA e : e.key = key)
\* lines 197-198: the dict after a hit; reading an entry does not move it
CacheAfterHit(cache, key) == cache

NoFault == "none"
Faults == {"load_sample", "preprocess", "envelope", "safety_check"}
\* stage `stage` raises when env.fault names it
Faulty(s, stage, env) == IF ~s.raised /\ env.fault = stage THEN Raise(s.heap) ELSE s

\* if abs(semitones) > 0.5: audio_data = self.safe_pitch_shift(audio_data, semitones)
ShiftIfNeeded(s, semitones, env) ==
    IF s.raised THEN s
    ELSE IF Abs(semitones) >= 1 THEN SafePitchShift(s, semitones, env.pitch_fails)
    ELSE s

\* lines 209-225, the stages after load_sample for a sample that has data.  env says
\* what the signal-processing library does: env.fault names a stage that raises,
\* env.pitch_fails and env.vocoder are the outcomes of librosa's pitch shift and
\* time stretch
NotePipeline(s, note, sample, env) ==
    FinalSafetyCheck(Faulty(
        ApplyNoteEnvelope(Faulty(
            TimeStretchSafe(
                ShiftIfNeeded(
                    PreprocessSample(Faulty(s, "preprocess", env)),
                    note.pitch - sample.pitch, env),
                IntSamples(note.duration), env.vocoder),
            "envelope", env)),
        "safety_check", env))

\* what synthesize_note_safe leaves and returns: the engine state, the ref returned
\* and the path taken
Outcome(h, sd, cache, r, path) ==
    [heap |-> h, sample_data |-> sd, sample_cache |-> cache, ret |-> r, path |-> path]

\* return np.zeros(int(note.duration * self.sample_rate))
Silence(h, sd, cache, note, path) ==
    Outcome(Append(h, Zeros(IntSamples(note.duration))), sd, cache, Len(h) + 1, path)

\* lines 227-236: the result is stored and returned, or the exception handler runs
Finish(out, stored, sd, cache, note) ==
    IF out.raised THEN Silence(out.heap, sd, cache, note, "error")
    ELSE Outcome(stored.heap, sd, stored.sample_cache, out.ref, "rendered")

\* a faulty variant: the silence of the exception handler is stored under the key
StoreEvenSilence(out, sd, cache, note, key) ==
    IF out.raised
    THEN Outcome(out.heap \o <<Zeros(IntSamples(note.duration)),
                               Zeros(IntSamples(note.duration))>>,
                 sd, CacheSet(MakeRoom(cache), key, Len(out.heap) + 2),
                 Len(out.heap) + 1, "error")
    ELSE Finish(out, CacheStore(out, cache, key), sd, cache, note)
StoreAndFinish(out, sd, cache, note, key) ==
    Finish(out, IF out.raised THEN [heap |-> out.heap, sample_cache |-> cache]
                ELSE CacheStore(out, cache, key),
           sd, cache, note)

\* lines 199-236 with the sample loaded: loaded = [heap, sample_data]
RenderLoaded(loaded, cache, note, sample, env) ==
    IF loaded.heap[loaded.sample_data[sample.file_path]].len = 0
    THEN Silence(loaded.heap, loaded.sample_data, cache, note, "empty")
    ELSE StoreAndFinish(
            NotePipeline(Stage(loaded.heap, loaded.sample_data[sample.file_path]),
                         note, sample, env),
            loaded.sample_data, cache, note, CacheKey(note, sample))

HitOutcome(hit, sd, cache) == Outcome(hit.heap, sd, cache, hit.ref, "hit")

\* synthesize_note_safe on the engine state eng = [heap, sample_data, sample_cache]
SynthesizeNoteSafe(eng, note, sample, env) ==
    IF CacheHas(eng.sample_cache, CacheKey(note, sample))
    THEN HitOutcome(CacheHit(eng.heap, eng.sample_cache, CacheKey(note, sample)),
                    eng.sample_data,
                    CacheAfterHit(eng.sample_cache, CacheKey(note, sample)))
    ELSE IF env.fault = "load_sample"          \* sample.load_sample() itself raises
         THEN Silence(eng.heap, eng.sample_data, eng.sample_cache, note, "error")
    ELSE RenderLoaded(LoadSample(eng.heap, eng.sample_data, sample.file_path),
                      eng.sample_cache, note, sample, env)

\* arrays nothing refers to any more are dropped from the heap, and the arrays
\* left are put in the order in which the engine refers to them: the samples'
\* data, the cache's entries, the caller's array.  Two refs to one array stay two
\* refs to one array
RefList(sd, cache, r) == sd \o [i \in 1..Len(cache) |-> cache[i].ref] \o <<r>>
\* the places of refs where an array is referred to for the first time, in order
FirstUses(refs) ==
    SelectSeq([i \in 1..Len(refs) |-> i],
              LAMBDA i : refs[i] # 0 /\ \A j \in 1..(i - 1) : refs[j] # refs[i])
\* the new ref of the array that had ref r
Moved(refs, firsts, r) ==
    IF r = 0 THEN 0 ELSE CHOOSE n \in 1..Len(firsts) : refs[firsts[n]] = r
Compact(eng, refs, firsts) ==
    [heap |-> [n \in 1..Len(firsts) |-> eng.heap[refs[firsts[n]]]],
     sample_data |-> [p \in DOMAIN eng.sample_data |-> Moved(refs, firsts, eng.sample_data[p])],
     sample_cache |-> [i \in 1..Len(eng.sample_cache) |->
                          [key |-> eng.sample_cache[i].key,
                           ref |-> Moved(refs, firsts, eng.sample_cache[i].ref)]],
     ret |-> Moved(refs, firsts, eng.ret)]
CollectRefs(eng, refs) == Compact(eng, refs, FirstUses(refs))
Collect(eng) == CollectRefs(eng, RefList(eng.sample_data, eng.sample_cache, eng.ret))

(***************************************************************************)
(* The engine under synthesize_note_safe                                   *)
(***************************************************************************)
NoKey == <<0, 0, 0>>
NoLast == [kind |-> "none", key |-> NoKey, duration |-> 0, len |-> 0, rewritten |-> FALSE,
           injected |-> FALSE]

RowOf(rows, key) == rows[CHOOSE i \in 1..Len(rows) : rows[i].key = key]
HasRow(rows, key) == \E i \in 1..Len(rows) : rows[i].key = key

EngineInit ==
    /\ heap = <<>>
    /\ sample_data = [p \in 1..Len(FileTable) |-> 0]
    /\ sample_cache = <<>>
    /\ ret = 0
    /\ last = NoLast
    /\ ledger = <<>>
    /\ stamp = 0

(***************************************************************************)
(* Projects and synthesize_project.  Times are in ticks, volume and pan in  *)
(* hundredths.                                                              *)
(***************************************************************************)
\* the library folders the tracks may name: the files found in each, or a folder
\* the adapter cannot load
LibraryPaths == {"libA", "bad"}
NoLibraryPath == ""
LibraryFiles(path) == IF path = "libA" THEN <<1, 2>> ELSE <<>>
RECURSIVE AddFiles(_, _)
AddFiles(smp, files) ==
    IF files = <<>> THEN smp ELSE AddFiles(AddSampleTo(smp, FileTable[Head(files)]), Tail(files))
NotLoaded == [loaded |-> FALSE, samples |-> <<>>]

\* load_voice_library(library_path): [voice_libraries, ok]
LoadVoiceLibrary(vl, path) ==
    IF vl[path].loaded THEN [voice_libraries |-> vl, ok |-> TRUE]
    ELSE IF LibraryFiles(path) # <<>>
         THEN [voice_libraries |->
                  [vl EXCEPT ![path] = [loaded |-> TRUE,
                                        samples |-> AddFiles(<<>>, LibraryFiles(path))]],
               ok |-> TRUE]
         ELSE [voice_libraries |-> vl, ok |-> FALSE]

\* any(t.solo for t in project.tracks if not t.muted)
AnySolo(tracks) == \E i \in 1..Len(tracks) : tracks[i].solo /\ ~tracks[i].muted
\* a faulty variant: the muted test is missing
SkippedUnlessSolo(track, tracks) == track.solo /\ ~AnySolo(tracks)
\* lines 69-75: the two tests that make the loop go on to the next track
Skipped(track, tracks) == track.muted \/ (track.solo /\ ~AnySolo(tracks))

\* what librosa does during synthesize_project: nothing fails
ProjectEnv == [vocoder |-> [raises |-> FALSE, delta |-> 0], pitch_fails |-> FALSE,
               fault |-> NoFault]

\* a faulty variant: the buffer is not extended for a note that ends after it
MixNoteCut(out, note_audio, start_sample) ==
    Apply(out, out.len, [op |-> "add", src |-> note_audio, at |-> start_sample])
\* track_output[start_sample:end_sample] += note_audio, the array padded first
\* when the note ends after it
MixNote(out, note_audio, start_sample) ==
    Apply(out, Max(out.len, start_sample + note_audio.len),
          [op |-> "add", src |-> note_audio, at |-> start_sample])

\* lines 129-139: the note rendered from sample and mixed into the track.
\* ts = [samples, heap, sample_data, sample_cache, out]
NoteMixed(ts, note, g, r) ==
    [samples |-> g.samples, heap |-> r.heap, sample_data |-> r.sample_data,
     sample_cache |-> r.sample_cache,
     out |-> MixNote(ts.out, r.heap[r.ret], IntSamples(note.start_time))]

\* a faulty variant: a note without a sample is sung with the first sample of the
\* library
NoteChosenFirstSample(ts, note, g) ==
    NoteMixed(ts, note, g,
              SynthesizeNoteSafe([heap |-> ts.heap, sample_data |-> ts.sample_data,
                                  sample_cache |-> ts.sample_cache],
                                 note,
                                 IF g.ret = NoSample THEN SampleOf(1) ELSE g.ret,
                                 ProjectEnv))
\* lines 126-139 after get_best_sample gave g
NoteChosen(ts, note, g) ==
    IF g.ret = NoSample THEN [ts EXCEPT !.samples = g.samples]
    ELSE NoteMixed(ts, note, g,
                   SynthesizeNoteSafe([heap |-> ts.heap, sample_data |-> ts.sample_data,
                                       sample_cache |-> ts.sample_cache],
                                      note, g.ret, ProjectEnv))

\* one turn of the loop of synthesize_track
NoteStep(ts, note) == NoteChosen(ts, note, GetBestSample(ts.samples, note.lyric, note.pitch))

RECURSIVE NoteLoop(_, _)
NoteLoop(ts, notes) ==
    IF notes = <<>> THEN ts ELSE NoteLoop(NoteStep(ts, Head(notes)), Tail(notes))

\* max(note.start_time + note.duration for note in track.notes)
RECURSIVE TrackDuration(_)
TrackDuration(notes) ==
    IF Len(notes) = 1 THEN notes[1].start_time + notes[1].duration
    ELSE Max(notes[1].start_time + notes[1].duration, TrackDuration(Tail(notes)))

SilentSeconds == 10
\* synthesize_track(track, voice_library) on ts; ts.out is the track's audio
SynthesizeTrack(ts, track) ==
    IF track.notes = <<>> THEN [ts EXCEPT !.out = Zeros(SampleRate * SilentSeconds)]
    ELSE NoteLoop([ts EXCEPT !.out = Zeros(IntSamples(TrackDuration(track.notes)))],
                  track.notes)

\* apply_track_mix(audio_data, volume, pan)
ApplyTrackMix(audio_data, volume, pan) ==
    IF audio_data.len > 0
    THEN Apply(audio_data, audio_data.len, Tok("volume_pan", volume, pan))
    ELSE Apply(audio_data, audio_data.len, Tok("volume", volume, 0))

\* master_output[:min_len] += track_audio[:min_len]
MixTrack(master, track_audio) ==
    Apply(master, master.len,
          [op |-> "add", src |-> track_audio, at |-> Min(track_audio.len, master.len)])

\* master_processing(audio_data); what the stages do to the values is in the
\* master bus section
MasterBus(audio_data) ==
    IF audio_data.len = 0 THEN audio_data
    ELSE Apply(audio_data, audio_data.len, Tok("master_processing", 0, 0))

\* lines 89-96: the track synthesized and mixed.  ps = [voice_libraries, heap,
\* sample_data, sample_cache, master_output, rendered]
TrackMixed(ps, track, i, ts) ==
    [voice_libraries |->
        [ps.voice_libraries EXCEPT ![track.voice_library_path].samples = ts.samples],
     heap |-> ts.heap, sample_data |-> ts.sample_data, sample_cache |-> ts.sample_cache,
     master_output |-> MixTrack(ps.master_output,
                                ApplyTrackMix(ts.out, track.volume, track.pan)),
     rendered |-> Append(ps.rendered, i)]

\* a faulty variant: the track is synthesized whether its library was loaded or not
TrackLoadedAnyway(ps, track, i, loaded) ==
    TrackMixed([ps EXCEPT !.voice_libraries = loaded.voice_libraries], track, i,
               SynthesizeTrack(
                   [samples |-> loaded.voice_libraries[track.voice_library_path].samples,
                    heap |-> ps.heap, sample_data |-> ps.sample_data,
                    sample_cache |-> ps.sample_cache, out |-> Zeros(0)],
                   track))
\* lines 79-96 after load_voice_library gave loaded
TrackLoaded(ps, track, i, loaded) ==
    IF ~loaded.ok THEN ps
    ELSE TrackMixed([ps EXCEPT !.voice_libraries = loaded.voice_libraries], track, i,
                    SynthesizeTrack(
                        [samples |-> loaded.voice_libraries[track.voice_library_path].samples,
                         heap |-> ps.heap, sample_data |-> ps.sample_data,
                         sample_cache |-> ps.sample_cache, out |-> Zeros(0)],
                        track))

\* one turn of the loop of synthesize_project, for track i
TrackBody(ps, tracks, i) ==
    IF Skipped(tracks[i], tracks) THEN ps
    ELSE IF tracks[i].voice_library_path = NoLibraryPath THEN ps
    ELSE TrackLoaded(ps, tracks[i], i,
                     LoadVoiceLibrary(ps.voice_libraries, tracks[i].voice_library_path))

RECURSIVE TrackLoop(_, _, _)
TrackLoop(ps, tracks, i) ==
    IF i > Len(tracks) THEN ps ELSE TrackLoop(TrackBody(ps, tracks, i), tracks, i + 1)

\* the arrays of the notes are dropped once mixed
Settled(ps, c) ==
    [ps EXCEPT !.heap = c.heap, !.sample_data = c.sample_data, !.sample_cache = c.sample_cache]
Settle(ps) ==
    Settled(ps, Collect([heap |-> ps.heap, sample_data |-> ps.sample_data,
                         sample_cache |-> ps.sample_cache, ret |-> 0]))

\* synthesize_project(p) on an engine in state eng = [voice_libraries, heap,
\* sample_data, sample_cache]: the buffer returned
SynthesizeProject(p, eng) ==
    MasterBus(TrackLoop([voice_libraries |-> eng.voice_libraries, heap |-> eng.heap,
                         sample_data |-> eng.sample_data, sample_cache |-> eng.sample_cache,
                         master_output |-> Zeros(IntSamples(p.total_duration)),
                         rendered |-> <<>>],
                        p.tracks, 1).master_output)

(***************************************************************************)
(* The values of the samples.  A value is a float: finite, in hundredths,   *)
(* or NaN, +Inf, -Inf.  An array of values stands for an array of any       *)
(* length.                                                                  *)
(***************************************************************************)
Fin(v) == [k |-> "fin", v |-> v]
NaN == [k |-> "nan", v |-> 0]
PosInf == [k |-> "inf", v |-> 1]
NegInf == [k |-> "inf", v |-> -1]
IsFinite(x) == x.k = "fin"
Sign(n) == IF n > 0 THEN 1 ELSE IF n < 0 THEN -1 ELSE 0
Quot(a, b) == Sign(a) * Sign(b) * (Abs(a) \div Abs(b))

\* IEEE arithmetic as numpy does it
FAdd(x, y) ==
    IF x.k = "nan" \/ y.k = "nan" THEN NaN
    ELSE IF x.k = "inf" /\ y.k = "inf" THEN (IF x.v = y.v THEN x ELSE NaN)
    ELSE IF x.k = "inf" THEN x
    ELSE IF y.k = "inf" THEN y
    ELSE Fin(x.v + y.v)
FNeg(x) == [x EXCEPT !.v = -x.v]
FSub(x, y) == FAdd(x, FNeg(y))
FMul(x, y) ==
    IF x.k = "nan" \/ y.k = "nan" THEN NaN
    ELSE IF x.k = "inf" \/ y.k = "inf"
         THEN (IF Sign(x.v) * Sign(y.v) = 0 THEN NaN
               ELSE [k |-> "inf", v |-> Sign(x.v) * Sign(y.v)])
    ELSE Fin(Quot(x.v * y.v, 100))
FDiv(x, y) ==
    IF x.k = "nan" \/ y.k = "nan" THEN NaN
    ELSE IF x.k = "inf" THEN (IF y.k = "inf" THEN NaN
                              ELSE [k |-> "inf", v |-> x.v * (IF y.v < 0 THEN -1 ELSE 1)])
    ELSE IF y.k = "inf" THEN Fin(0)
    ELSE IF y.v = 0 THEN (IF x.v = 0 THEN NaN ELSE [k |-> "inf", v |-> Sign(x.v)])
    ELSE Fin(Quot(x.v * 100, y.v))
FAbs(x) == [x EXCEPT !.v = Abs(x.v)]
\* x > y; False when either is NaN
FGt(x, y) ==
    IF x.k = "nan" \/ y.k = "nan" THEN FALSE
    ELSE IF x.k = "inf" THEN x.v > 0 /\ ~(y.k = "inf" /\ y.v > 0)
    ELSE IF y.k = "inf" THEN y.v < 0
    ELSE x.v > y.v

RECURSIVE FSum(_)
FSum(xs) == IF xs = <<>> THEN Fin(0) ELSE FAdd(Head(xs), FSum(Tail(xs)))
\* np.mean
FMean(xs) == FDiv(FSum(xs), Fin(Len(xs) * 100))
\* np.max(np.abs(xs)): NaN when a value is NaN
RECURSIVE FMaxAbs(_)
FMaxAbs(xs) ==
    IF Len(xs) = 1 THEN FAbs(xs[1])
    ELSE LET m == FMaxAbs(Tail(xs))
         IN  IF xs[1].k = "nan" \/ m.k = "nan" THEN NaN
             ELSE IF FGt(FAbs(xs[1]), m) THEN FAbs(xs[1]) ELSE m
Each(xs, F(_)) == [i \in 1..Len(xs) |-> F(xs[i])]
AddValues(xs, ys) == [i \in 1..Len(xs) |-> FAdd(xs[i], ys[i])]

\* np.nan_to_num: NaN becomes 0, an infinity the largest float of its sign (here a
\* value far over any the mix reaches)
NanToNum(x) == IF x.k = "nan" THEN Fin(0)
               ELSE IF x.k = "inf" THEN Fin(x.v * 1000000) ELSE x
\* np.clip(x, -0.95, 0.95)
Clip(x) == Fin(Max(-ClipLevel, Min(ClipLevel, x.v)))
\* audio_data[1:-1] = 0.25 * audio_data[:-2] + 0.5 * audio_data[1:-1] + 0.25 * audio_data[2:]
SmoothValues(xs) ==
    IF Len(xs) > SmoothMinLength
    THEN [i \in 1..Len(xs) |->
            IF i = 1 \/ i = Len(xs) THEN xs[i]
            ELSE FAdd(FAdd(FMul(Fin(25), xs[i - 1]), FMul(Fin(50), xs[i])),
                      FMul(Fin(25), xs[i + 1]))]
    ELSE xs
\* final_safety_check on the values
FinalSafetyCheckValues(xs) == SmoothValues(Each(Each(xs, NanToNum), Clip))

\* apply_track_mix on the values
PanGain(pan) == Quot((IF pan <= 0 THEN 100 ELSE 100 - pan)
                     + (IF pan >= 0 THEN 100 ELSE 100 + pan), 2)
ApplyTrackMixValues(xs, volume, pan) ==
    [i \in 1..Len(xs) |-> FMul(FMul(xs[i], Fin(volume)), Fin(PanGain(pan)))]

\* audio_data - np.mean(audio_data)
RemoveDc(xs) == [i \in 1..Len(xs) |-> FSub(xs[i], FMean(xs))]

\* multiband_eq.  eq is what the filters do: "fails" (scipy raises, as for an array
\* too short to pad: the input is returned), or the gain in hundredths of the
\* filtered mix; a filter gives finite values for finite values
MultibandEq(xs, eq) ==
    IF eq.fails THEN xs ELSE [i \in 1..Len(xs) |-> FMul(xs[i], Fin(eq.gain))]

\* advanced_compression: the two assignments go to compressed[above_threshold],
\* which is a copy made by the boolean index, so compressed stays a copy of the
\* input
AdvancedCompression(xs) == xs

LimiterThreshold == 90
\* limiter: audio_data[over] = audio_data[over] / (peaks[over] / threshold)
Limiter(xs) ==
    [i \in 1..Len(xs) |->
        IF FGt(FAbs(xs[i]), Fin(LimiterThreshold))
        THEN FDiv(xs[i], FDiv(FAbs(xs[i]), Fin(LimiterThreshold)))
        ELSE xs[i]]

TargetLevel == 90
\* lines 181-184: audio_data / max_val * target_level when max_val > 0
NormalizeTo(xs, max_val) ==
    IF FGt(max_val, Fin(0))
    THEN [i \in 1..Len(xs) |-> FMul(FDiv(xs[i], max_val), Fin(TargetLevel))]
    ELSE xs
Normalize(xs) == NormalizeTo(xs, FMaxAbs(xs))

\* The stages of master_processing.  env = [eq, fault]: what the filters of the
\* equalizer do, and the stage whose call raises, if one does (numpy can raise on
\* any allocation).  multiband_eq raises nothing: its body is one try block.
\* m = [xs, stages, raised]: the local audio_data, the buffers the completed
\* stages assigned to it, and whether a stage raised
MasterFaults == {"dc", "compressor", "limiter", "normalize"}
MasterStart(xs) == [xs |-> xs, stages |-> <<>>, raised |-> FALSE]
MasterStage(m, name, F(_), fault) ==
    IF m.raised THEN m
    ELSE IF fault = name THEN [m EXCEPT !.raised = TRUE]
    ELSE [m EXCEPT !.xs = F(m.xs), !.stages = Append(@, F(m.xs))]

\* a faulty variant: when a stage raises, the input buffer is returned
MasterStagesAllOrNothing(xs, env) ==
    IF env.fault # NoFault THEN [MasterStart(xs) EXCEPT !.raised = TRUE]
    ELSE MasterStart(Normalize(Limiter(AdvancedCompression(
                        MultibandEq(RemoveDc(xs), env.eq)))))
\* lines 167-191: the try block and its handler, which returns audio_data
MasterStages(xs, env) ==
    MasterStage(
        MasterStage(
            MasterStage(
                MasterStage(
                    MasterStage(MasterStart(xs), "dc", RemoveDc, env.fault),
                    "eq", LAMBDA v : MultibandEq(v, env.eq), env.fault),
                "compressor", AdvancedCompression, env.fault),
            "limiter", Limiter, env.fault),
        "normalize", Normalize, env.fault)

\* a faulty variant: the mix is returned as it is
MasterUnprocessed(xs, env) == xs
\* master_processing on the values
MasterProcessing(xs, env) ==
    IF Len(xs) = 0 THEN xs ELSE MasterStages(xs, env).xs

\* export_audio: the 16-bit values written to the file
FullScale == 100
PcmScale == 32767
ExportClip(x) == Fin(Max(-FullScale, Min(FullScale, x.v)))
\* (audio_data * 32767).astype(np.int16): the fraction is dropped
ToInt16(x) == Quot(x.v * PcmScale, 100)
ExportPcm(audio) == [i \in 1..Len(audio) |-> ToInt16(ExportClip(NanToNum(audio[i])))]

BusLen == 4
NotExported == [audio |-> <<>>, pcm |-> <<>>]
Silent(n) == [i \in 1..n |-> Fin(0)]
BusInit ==
    bus = [track |-> Silent(BusLen), master |-> Silent(BusLen), out |-> <<>>, steps |-> 0,
           pc |-> "mixing", stages |-> <<>>, env |-> <<>>, exported |-> NotExported]

NoTrackBegin == [samples |-> <<>>, heap |-> <<>>, sample_data |-> <<>>, sample_cache |-> <<>>]
\* Track(name, voice_library_path): no notes yet
NoNote == [given |-> <<>>, note |-> <<>>]
DataInit == constructed = NoNote

TrackInit ==
    trk = [notes |-> <<>>, pc |-> "idle", pos |-> 0, out |-> Zeros(0), picks |-> <<>>,
           begin |-> NoTrackBegin, first |-> 0]

\* ProjectSettings(max_tracks=SettingsMaxTracks), the other fields at their defaults
SettingsMaxTracks == 2
DefaultTempo == 120
GivenSettings ==
    [tempo |-> DefaultTempo, time_signature |-> "4/4", sample_rate |-> 44100,
     total_duration |-> 120, max_tracks |-> SettingsMaxTracks]
NoFile == <<>>
NoDocCall == [op |-> "", index |-> 0, raised |-> FALSE]
\* Project(name, settings): no tracks, current_track_index = 0, nothing saved
DocInit ==
    doc = [name |-> "p", settings |-> GivenSettings, tracks |-> <<>>,
           current_track_index |-> 0, file |-> NoFile, saved |-> NoFile, last |-> NoDocCall]

\* no crossfade_repeat call made yet
LoopInit ==
    xf = [current |-> 0, target |-> 0, pos |-> 0, written |-> {}, faded |-> 0, pc |-> "idle"]

\* ProjectSettings.total_duration and max_tracks
DefaultTotalDuration == 120
DefaultMaxTracks == 16

NoEngine == [voice_libraries |-> [p \in LibraryPaths |-> NotLoaded], heap |-> <<>>,
             sample_data |-> <<>>, sample_cache |-> <<>>]

ProjectInit ==
    /\ project = [tracks |-> <<>>,
                  total_duration |-> DefaultTotalDuration * SampleRate * TicksPerSample]
    /\ voice_libraries = [p \in LibraryPaths |-> NotLoaded]
    /\ pc = "idle"
    /\ idx = 0
    /\ master_output = Zeros(0)
    /\ rendered = <<>>
    /\ begin = NoEngine

\* a new library, a new engine and a new project
Init ==
    /\ LibInit /\ EngineInit /\ ProjectInit /\ BusInit /\ TrackInit /\ DataInit
    /\ LoopInit /\ DocInit

\* the history kept for a call that gave outcome r
LedgerAfter(r) ==
    [i \in 1..Len(r.sample_cache) |->
        IF HasRow(ledger, r.sample_cache[i].key)
        THEN RowOf(ledger, r.sample_cache[i].key)
        ELSE [key |-> r.sample_cache[i].key, buf |-> r.heap[r.ret], stamp |-> stamp + 1]]

Effect(r, c, note, sample, env) ==
    /\ heap' = c.heap
    /\ sample_data' = c.sample_data
    /\ sample_cache' = c.sample_cache
    /\ ret' = c.ret
    /\ last' = [kind |-> r.path, key |-> CacheKey(note, sample),
                duration |-> note.duration, len |-> r.heap[r.ret].len,
                rewritten |-> last.kind = "write" /\ last.key = CacheKey(note, sample),
                injected |-> r.path = "error" /\ env.fault # NoFault]
    /\ stamp' = IF \E i \in 1..Len(r.sample_cache) : ~HasRow(ledger, r.sample_cache[i].key)
                THEN stamp + 1 ELSE stamp
    /\ ledger' = LedgerAfter(r)

\* one call of synthesize_note_safe(note, sample); the caller keeps the result
Render(note, sample, env) ==
    \E r \in {SynthesizeNoteSafe(
                [heap |-> heap, sample_data |-> sample_data, sample_cache |-> sample_cache],
                note, sample, env)} :
        \E c \in {Collect(r)} : Effect(r, c, note, sample, env)

\* the caller modifies the array it was handed
Written(buf) == \E i \in 1..Len(buf.data) : buf.data[i].op = "caller_write"
CallerWrite ==
    /\ ret # 0
    /\ ~Written(heap[ret])
    /\ heap' = [heap EXCEPT ![ret] = Apply(@, @.len, Tok("caller_write", 0, 0))]
    /\ last' = [last EXCEPT !.kind = "write"]
    /\ UNCHANGED <<sample_data, sample_cache, ret, ledger, stamp>>
    /\ UNCHANGED <<libVars, prjVars, bus, trk, constructed, xf, doc>>

\* --- one note, drawn freely, rendered any number of times -----------------
NotePitches == {60, 67}
NoteDurations == {2, 40, 3600, 19203, 88200}
NoteSamplePaths == {1, 2, 3, 4, 5}
Vocoders == {[raises |-> FALSE, delta |-> 0], [raises |-> FALSE, delta |-> -1],
             [raises |-> FALSE, delta |-> 1], [raises |-> TRUE, delta |-> 0]}
Envs ==
    {[vocoder |-> v, pitch_fails |-> FALSE, fault |-> NoFault] : v \in Vocoders}
    \cup {[vocoder |-> [raises |-> FALSE, delta |-> 0], pitch_fails |-> TRUE, fault |-> NoFault]}
    \cup {[vocoder |-> [raises |-> FALSE, delta |-> 0], pitch_fails |-> FALSE, fault |-> f] :
            f \in Faults}

RenderNote(pitch, duration, path, env) ==
    LET note == [pitch |-> pitch, duration |-> duration]
    IN  /\ last.key \in {NoKey, CacheKey(note, SampleOf(path))}
        /\ Render(note, SampleOf(path), env)
        /\ UNCHANGED <<libVars, prjVars, bus, trk, constructed, xf, doc>>

NextNote ==
    \/ \E pitch \in NotePitches, duration \in NoteDurations, path \in NoteSamplePaths,
            env \in Envs : RenderNote(pitch, duration, path, env)
    \/ CallerWrite

SpecNote == Init /\ [][NextNote]_vars

\* --- many notes on one engine: the cache fills and evicts -----------------
MaxExtra == 3
\* the k-th note of the session; notes of different k have different durations
ScriptNote(k) == [pitch |-> 60 + (k % 3), duration |-> 80000 + k]
CachePaths == {1, 3}
CacheEnvs ==
    {[vocoder |-> [raises |-> FALSE, delta |-> 0], pitch_fails |-> FALSE, fault |-> f] :
        f \in {NoFault} \cup Faults}

\* the next synthesize_note_safe call: the first note again, the newest one
\* again, or a new one; a new one may meet an empty sample or a failing stage
RequestNote(k, path, env) ==
    /\ k \in {1, stamp, stamp + 1} \ {0}
    /\ (path = 1 /\ env.fault = NoFault)
       \/ (k = stamp + 1 /\ (path = 1 \/ env.fault = NoFault))
    /\ stamp < CacheLimit + MaxExtra
    /\ Render(ScriptNote(k), SampleOf(path), env)
    /\ UNCHANGED <<libVars, prjVars, bus, trk, constructed, xf, doc>>

NextCache ==
    \/ \E k \in 1..(CacheLimit + MaxExtra), path \in CachePaths, env \in CacheEnvs :
            RequestNote(k, path, env)
    \/ CallerWrite

SpecCache == Init /\ [][NextCache]_vars

\* --- projects of a few tracks, synthesized on one engine -------------------
MaxTracks == 2
NoteA == [lyric |-> <<"a">>, pitch |-> 60, start_time |-> 0, duration |-> 3600]
NoteB == [lyric |-> <<"a">>, pitch |-> 62, start_time |-> 2000, duration |-> 3600]
NoteC == [lyric |-> <<"a">>, pitch |-> 68, start_time |-> 0, duration |-> 88200]
Track(path, notes, muted, solo, volume, pan) ==
    [voice_library_path |-> path, notes |-> notes, muted |-> muted, solo |-> solo,
     volume |-> volume, pan |-> pan]
TrackChoices ==
    { Track("libA", <<NoteA>>, FALSE, FALSE, 100, 0),
      Track("libA", <<NoteC, NoteB>>, FALSE, TRUE, 100, 0),
      Track("libA", <<NoteC, NoteB>>, TRUE, FALSE, 100, 0),
      Track("libA", <<NoteA>>, TRUE, TRUE, 100, 0),
      Track("libA", <<>>, TRUE, FALSE, 100, 0),
      Track("libA", <<>>, FALSE, FALSE, 50, 50),
      Track(NoLibraryPath, <<NoteA>>, FALSE, FALSE, 100, 0),
      Track("bad", <<NoteA>>, FALSE, TRUE, 100, 0) }

\* project.settings.total_duration = d, in ticks: the default, nothing, a negative
\* duration shorter than one sample, and one sample less than nothing
TotalDurations == {DefaultTotalDuration * SampleRate * TicksPerSample, 0, -1, -TicksPerSample}
SetTotalDuration(d) ==
    /\ pc = "idle"
    /\ project.tracks = <<>>
    /\ project.total_duration # d
    /\ project' = [project EXCEPT !.total_duration = d]
    /\ UNCHANGED <<voice_libraries, pc, idx, master_output, rendered, begin>>
    /\ UNCHANGED <<libVars, engVars, bus, trk, constructed, xf, doc>>

\* project.add_track and the caller's settings of the new track
AddTrack(track) ==
    /\ pc \in {"idle", "done", "raised"}
    /\ Len(project.tracks) < MaxTracks
    /\ Len(project.tracks) < DefaultMaxTracks
    /\ project' = [project EXCEPT !.tracks = Append(@, track)]
    /\ pc' = "idle"
    /\ UNCHANGED <<voice_libraries, idx, master_output, rendered, begin>>
    /\ UNCHANGED <<libVars, engVars, bus, trk, constructed, xf, doc>>

\* synthesize_project(project) is called: lines 60-65.  np.zeros raises ValueError
\* for a negative number of samples, and the call ends there
BeginSynthesis ==
    /\ pc \in {"idle", "done", "raised"}
    /\ IF IntSamples(project.total_duration) < 0
       THEN pc' = "raised" /\ UNCHANGED <<idx, master_output>>
       ELSE /\ pc' = "tracks"
            /\ idx' = 1
            /\ master_output' = Zeros(IntSamples(project.total_duration))
    /\ rendered' = <<>>
    /\ begin' = [voice_libraries |-> voice_libraries, heap |-> heap,
                 sample_data |-> sample_data, sample_cache |-> sample_cache]
    /\ UNCHANGED <<project, voice_libraries>>
    /\ UNCHANGED <<libVars, engVars, bus, trk, constructed, xf, doc>>

TrackEffect(ps) ==
    /\ voice_libraries' = ps.voice_libraries
    /\ heap' = ps.heap
    /\ sample_data' = ps.sample_data
    /\ sample_cache' = ps.sample_cache
    /\ master_output' = ps.master_output
    /\ rendered' = ps.rendered

\* one turn of the loop over project.tracks
TrackStep ==
    /\ pc = "tracks"
    /\ idx <= Len(project.tracks)
    /\ \E ps \in {Settle(TrackBody([voice_libraries |-> voice_libraries, heap |-> heap,
                                    sample_data |-> sample_data,
                                    sample_cache |-> sample_cache,
                                    master_output |-> master_output,
                                    rendered |-> rendered],
                                   project.tracks, idx))} : TrackEffect(ps)
    /\ idx' = idx + 1
    /\ UNCHANGED <<project, pc, begin>>
    /\ UNCHANGED <<libVars, ret, last, ledger, stamp, bus, trk, constructed, xf, doc>>

\* the loop is over: master_processing, and the buffer is returned
FinishSynthesis ==
    /\ pc = "tracks"
    /\ idx > Len(project.tracks)
    /\ master_output' = MasterBus(master_output)
    /\ pc' = "done"
    /\ UNCHANGED <<project, voice_libraries, idx, rendered, begin>>
    /\ UNCHANGED <<libVars, engVars, bus, trk, constructed, xf, doc>>

NextProject ==
    \/ \E d \in TotalDurations : SetTotalDuration(d)
    \/ \E track \in TrackChoices : AddTrack(track)
    \/ BeginSynthesis
    \/ TrackStep
    \/ FinishSynthesis

SpecProject == Init /\ [][NextProject]_vars

\* --- one track, synthesized note by note on a library of a few files --------
MaxNotes == 2
TrackFiles == {1, 2, 4}
NoteK == [lyric |-> <<"k", "a">>, pitch |-> 60, start_time |-> 4003, duration |-> 3600]
NoteZ == [lyric |-> <<"z", "z">>, pitch |-> 60, start_time |-> 0, duration |-> 120000]
TrackNotes == {NoteA, NoteB, NoteC, NoteK, NoteZ}

\* load_library adds a file found in the folder of the voice library
AddLibraryFile(file) ==
    /\ trk.pc = "idle"
    /\ trk.notes = <<>>
    /\ file.path \in TrackFiles
    /\ AddSample(file)

\* track.add_note(note)
AddNote(note) ==
    /\ trk.pc = "idle"
    /\ Len(trk.notes) < MaxNotes
    /\ trk' = [trk EXCEPT !.notes = Append(@, note)]
    /\ UNCHANGED <<libVars, engVars, prjVars, bus, constructed, xf, doc>>

\* The float sum note.start_time + note.duration is rounded, so that
\* int(track_duration * sample_rate) can be one less than the sample count of
\* the exact sum (0.7 + 0.1 gives 38399 samples at 48000, not 38400); a note that
\* starts at 0 has no sum to round
SumLosses(notes) ==
    IF notes # <<>> /\ \A i \in 1..Len(notes) :
                          notes[i].start_time + notes[i].duration = TrackDuration(notes)
                              => notes[i].start_time # 0
    THEN {0, 1} ELSE {0}
\* lines 111-118: the track_output synthesize_track starts with
FirstOutput(notes, loss) ==
    IF notes = <<>> THEN Zeros(SampleRate * SilentSeconds)
    ELSE Zeros(Max(0, IntSamples(TrackDuration(notes)) - loss))

\* synthesize_track(track, voice_library) is called: lines 111-118
BeginTrack(loss) ==
    /\ trk.pc = "idle"
    /\ loss \in SumLosses(trk.notes)
    /\ trk' = [trk EXCEPT
                !.pc = IF trk.notes = <<>> THEN "done" ELSE "notes",
                !.pos = 1,
                !.out = FirstOutput(trk.notes, loss),
                !.first = FirstOutput(trk.notes, loss).len,
                !.begin = [samples |-> samples, heap |-> heap,
                           sample_data |-> sample_data, sample_cache |-> sample_cache]]
    /\ UNCHANGED <<libVars, engVars, prjVars, bus, constructed, xf, doc>>

TrackNoteEffect(ts, pick) ==
    /\ samples' = ts.samples
    /\ heap' = ts.heap
    /\ sample_data' = ts.sample_data
    /\ sample_cache' = ts.sample_cache
    /\ trk' = [trk EXCEPT !.out = ts.out, !.pos = @ + 1, !.picks = Append(@, pick.file_path)]

\* one turn of the loop over track.notes
TrackNote ==
    /\ trk.pc = "notes"
    /\ trk.pos <= Len(trk.notes)
    /\ \E ts \in {Settle(NoteStep([samples |-> samples, heap |-> heap,
                                    sample_data |-> sample_data,
                                    sample_cache |-> sample_cache, out |-> trk.out],
                                   trk.notes[trk.pos]))} :
            TrackNoteEffect(ts, GetBestSample(samples, trk.notes[trk.pos].lyric,
                                              trk.notes[trk.pos].pitch).ret)
    /\ UNCHANGED <<added, call, ret, last, ledger, stamp, prjVars, bus, constructed, xf, doc>>

\* the loop is over: return track_output
ReturnTrack ==
    /\ trk.pc = "notes"
    /\ trk.pos > Len(trk.notes)
    /\ trk' = [trk EXCEPT !.pc = "done"]
    /\ UNCHANGED <<libVars, engVars, prjVars, bus, constructed, xf, doc>>

NextTrack ==
    \/ \E file \in AudioFiles : AddLibraryFile(file)
    \/ \E note \in TrackNotes : AddNote(note)
    \/ \E loss \in {0, 1} : BeginTrack(loss)
    \/ TrackNote
    \/ ReturnTrack

SpecTrack == Init /\ [][NextTrack]_vars

(***************************************************************************)
(* The data objects: the Note dataclass and its __post_init__.             *)
(***************************************************************************)
MaxDuration == 5
MinDuration == 10
\* x <= y; False when either is NaN
FLe(x, y) == x.k # "nan" /\ y.k # "nan" /\ ~FGt(x, y)

\* the durations handed to the constructor: a float, any float
GivenDurations == {Fin(v) : v \in (-MaxDuration)..MaxDuration} \cup {NaN, PosInf, NegInf}
GivenLyrics == {"a", "ka"}
GivenPitches == {60, 62}
GivenStartTimes == {Fin(0), Fin(100)}

\* Note.__post_init__: if self.duration <= 0: self.duration = 0.1
PostInit(note) ==
    IF FLe(note.duration, Fin(0)) THEN [note EXCEPT !.duration = Fin(MinDuration)] ELSE note

\* Note(lyric, pitch, start_time, duration): the dataclass __init__ assigns the
\* fields, the defaults for velocity and flags, then calls __post_init__
NewNote(lyric, pitch, start_time, duration) ==
    /\ constructed' =
         [given |-> [lyric |-> lyric, pitch |-> pitch, start_time |-> start_time,
                     duration |-> duration],
          note  |-> PostInit([lyric |-> lyric, pitch |-> pitch, start_time |-> start_time,
                              duration |-> duration, velocity |-> 64, flags |-> ""])]
    /\ UNCHANGED <<libVars, engVars, prjVars, bus, trk, xf, doc>>

NextData ==
    \E lyric \in GivenLyrics, pitch \in GivenPitches, start_time \in GivenStartTimes,
       duration \in GivenDurations : NewNote(lyric, pitch, start_time, duration)

SpecData == Init /\ [][NextData]_vars

(***************************************************************************)
(* The lengthening loop of crossfade_repeat, one turn at a time            *)
(***************************************************************************)
MaxCurrent == 6
MaxTarget == 14

\* a faulty variant: a whole copy of the input at every turn, the room left in
\* result not looked at
CopyLenWhole(current_samples, target_samples, pos) == current_samples
\* line 350: copy_len = min(current_samples, target_samples - pos)
CopyLen(current_samples, target_samples, pos) == Min(current_samples, target_samples - pos)

\* line 357: overlap_len = min(256, current_samples // 4, pos, copy_len)
OverlapLen(current_samples, pos, copy_len) ==
    Min(Min(MaxOverlap, current_samples \div 4), Min(pos, copy_len))

\* the indices of result one turn assigns (lines 352-373): the first copy, or the
\* crossfaded stretch and what is left of the copy after it, or a plain copy
AssignedIn(pos, copy_len, overlap_len) ==
    IF pos = 0 THEN 0..(copy_len - 1)
    ELSE IF overlap_len > 0
         THEN (pos..(pos + overlap_len - 1))
              \cup (IF copy_len > overlap_len
                    THEN (pos + overlap_len)..(pos + copy_len - 1) ELSE {})
         ELSE pos..(pos + copy_len - 1)

\* lines 343-347: the else branch is entered, result = np.zeros(target_samples),
\* pos = 0
BeginCrossfade(current_samples, target_samples) ==
    /\ xf.pc = "idle"
    /\ current_samples < target_samples
    /\ xf' = [current |-> current_samples, target |-> target_samples, pos |-> 0,
              written |-> {}, faded |-> 0, pc |-> "loop"]
    /\ UNCHANGED <<libVars, engVars, prjVars, bus, trk, constructed, doc>>

\* one turn of `while pos < target_samples` (lines 349-375)
CrossfadeTurn ==
    /\ xf.pc = "loop"
    /\ xf.pos < xf.target
    /\ \E copy_len \in {CopyLen(xf.current, xf.target, xf.pos)} :
         \E overlap_len \in {OverlapLen(xf.current, xf.pos, copy_len)} :
            xf' = [xf EXCEPT
                     !.written = @ \cup AssignedIn(xf.pos, copy_len, overlap_len),
                     !.faded = IF xf.pos = 0 THEN @ ELSE @ + Max(overlap_len, 0),
                     !.pos = @ + copy_len]
    /\ UNCHANGED <<libVars, engVars, prjVars, bus, trk, constructed, doc>>

\* the loop condition is false: return result (line 377)
CrossfadeReturn ==
    /\ xf.pc = "loop"
    /\ ~(xf.pos < xf.target)
    /\ xf' = [xf EXCEPT !.pc = "done"]
    /\ UNCHANGED <<libVars, engVars, prjVars, bus, trk, constructed, doc>>

NextLoop ==
    \/ \E current_samples \in 1..MaxCurrent, target_samples \in 2..MaxTarget :
          BeginCrossfade(current_samples, target_samples)
    \/ CrossfadeTurn
    \/ CrossfadeReturn

SpecLoop == Init /\ [][NextLoop]_vars
\* the call runs on one thread and nothing interrupts it: a turn that can be
\* taken is taken, and so is the return
SpecLoopFair == SpecLoop /\ WF_vars(CrossfadeTurn) /\ WF_vars(CrossfadeReturn)

\* a turn of the loop moves the write position forward
C28_Step ==
    (xf.pc = "loop" /\ xf'.pc = "loop" /\ xf' # xf) => xf'.pos > xf.pos
\* at the return the position is the target length and every index of result
\* has been assigned; the positions are those of CrossfadeLoop
C28_AtReturn ==
    xf.pc = "done" =>
        /\ xf.pos = xf.target
        /\ xf.written = 0..(xf.target - 1)
        /\ xf.pos = CrossfadeLoop(xf.current, xf.target, 0)[
                        Len(CrossfadeLoop(xf.current, xf.target, 0))]
\* C28: the lengthening loop of crossfade_repeat terminates for every input of
\* length >= 1 and every target length above it: the write position grows at
\* every turn, and the loop ends with the position equal to the target length
\* and every index of the output written
C28_LoopTerminates ==
    /\ [][C28_Step]_vars
    /\ []C28_AtReturn
    /\ (xf.pc = "loop") ~> (xf.pc = "done")
\* a call of several turns that returned, with crossfaded stretches, the last
\* copy shorter than the input
C28_Witness ==
    /\ xf.pc = "done"
    /\ xf.target > 2 * xf.current
    /\ xf.target % xf.current # 0
    /\ xf.faded >= 2

(***************************************************************************)
(* The Project: its track list, and saving and loading it                  *)
(***************************************************************************)
TrackNames == {"t1", "t2"}
GivenLibraryPaths == {"", "lib"}
\* the indexes a caller passes: in range, negative, past the end
GivenIndexes == (-1)..(SettingsMaxTracks + 1)

\* Track(name, voice_library_path): Track.__init__
NewTrack(name, voice_library_path) ==
    [name |-> name, voice_library_path |-> voice_library_path, notes |-> <<>>,
     muted |-> FALSE, solo |-> FALSE, volume |-> Fin(100), pan |-> Fin(0)]

\* del self.tracks[index], index counted from 0
DelAt(tracks, index) ==
    [i \in 1..(Len(tracks) - 1) |-> IF i <= index THEN tracks[i] ELSE tracks[i + 1]]

\* a faulty variant: current_track_index left as it is after a removal
FixCurrentSkipped(tracks, current_track_index) == current_track_index
\* lines 66-68: the index brought back into the list after a removal
FixCurrent(tracks, current_track_index) ==
    IF current_track_index >= Len(tracks)
    THEN Max(0, Len(tracks) - 1) ELSE current_track_index

\* Project.add_track, with the name given and the capacity looked at
AddNamedTrack(name, voice_library_path) ==
    /\ doc' = IF Len(doc.tracks) >= doc.settings.max_tracks
              THEN [doc EXCEPT !.last = [op |-> "add_track", index |-> 0, raised |-> TRUE]]
              ELSE [doc EXCEPT
                      !.tracks = Append(@, NewTrack(name, voice_library_path)),
                      !.last = [op |-> "add_track", index |-> 0, raised |-> FALSE]]
    /\ UNCHANGED <<libVars, engVars, prjVars, bus, trk, constructed, xf>>

\* Project.remove_track
RemoveTrack(index) ==
    /\ doc' = IF 0 <= index /\ index < Len(doc.tracks)
              THEN [doc EXCEPT
                      !.tracks = DelAt(@, index),
                      !.current_track_index = FixCurrent(DelAt(doc.tracks, index), @),
                      !.last = [op |-> "remove_track", index |-> index, raised |-> FALSE]]
              ELSE [doc EXCEPT
                      !.last = [op |-> "remove_track", index |-> index, raised |-> FALSE]]
    /\ UNCHANGED <<libVars, engVars, prjVars, bus, trk, constructed, xf>>

\* Project.set_current_track
SetCurrentTrack(index) ==
    /\ doc' = IF 0 <= index /\ index < Len(doc.tracks)
              THEN [doc EXCEPT
                      !.current_track_index = index,
                      !.last = [op |-> "set_current_track", index |-> index,
                                raised |-> FALSE]]
              ELSE [doc EXCEPT
                      !.last = [op |-> "set_current_track", index |-> index,
                                raised |-> FALSE]]
    /\ UNCHANGED <<libVars, engVars, prjVars, bus, trk, constructed, xf>>

NextDoc ==
    \/ \E name \in TrackNames, voice_library_path \in GivenLibraryPaths :
          AddNamedTrack(name, voice_library_path)
    \/ \E index \in GivenIndexes : RemoveTrack(index)
    \/ \E index \in GivenIndexes : SetCurrentTrack(index)

SpecDoc == Init /\ [][NextDoc]_vars

\* the track count is within settings.max_tracks and current_track_index is a
\* position of the list, 0 when the list is empty
C29_Valid ==
    /\ Len(doc.tracks) <= doc.settings.max_tracks
    /\ IF Len(doc.tracks) = 0 THEN doc.current_track_index = 0
       ELSE doc.current_track_index \in 0..(Len(doc.tracks) - 1)
\* add_track at capacity raises and leaves the list; remove_track and
\* set_current_track with an index out of range change nothing
C29_Step ==
    /\ (doc'.last.op = "add_track" /\ doc' # doc
          /\ Len(doc.tracks) >= doc.settings.max_tracks)
        => (doc'.last.raised /\ doc'.tracks = doc.tracks
            /\ doc'.current_track_index = doc.current_track_index)
    /\ (doc'.last.op = "add_track" /\ doc' # doc
          /\ Len(doc.tracks) < doc.settings.max_tracks)
        => (~doc'.last.raised /\ Len(doc'.tracks) = Len(doc.tracks) + 1)
    /\ (doc'.last.op \in {"remove_track", "set_current_track"} /\ doc' # doc
          /\ doc'.last.index \notin 0..(Len(doc.tracks) - 1))
        => (doc'.tracks = doc.tracks
            /\ doc'.current_track_index = doc.current_track_index)
\* C29: after any sequence of add_track, remove_track and set_current_track the
\* number of tracks is at most settings.max_tracks and current_track_index is a
\* valid position (0 when there are no tracks); add_track at capacity raises and
\* leaves the list unchanged; remove_track and set_current_track with an index
\* out of range change nothing
C29_TrackListValid == []C29_Valid /\ [][C29_Step]_vars
\* the last track was current and has been removed from a full list
C29_Witness ==
    /\ doc.last.op = "remove_track"
    /\ doc.last.index = SettingsMaxTracks - 1
    /\ Len(doc.tracks) = SettingsMaxTracks - 1
    /\ doc.current_track_index = Len(doc.tracks) - 1

MaxDocNotes == 1
\* the note a caller adds to a track: Note("a", 60, 0.0, 0.5)
DocNote ==
    PostInit([lyric |-> "a", pitch |-> 60, start_time |-> Fin(0), duration |-> Fin(50),
              velocity |-> 64, flags |-> ""])
\* a mixing state a caller gives a track: muted, at half volume, panned left
GivenMixes == {[muted |-> TRUE, solo |-> FALSE, volume |-> Fin(50), pan |-> Fin(-50)]}
ProjectNames == {"p", "q"}

InRange(index) == 0 <= index /\ index < Len(doc.tracks)
MixOf(track) ==
    [muted |-> track.muted, solo |-> track.solo, volume |-> track.volume, pan |-> track.pan]

\* project.tracks[index].add_note(note)
AddNoteTo(index) ==
    /\ InRange(index)
    /\ Len(doc.tracks[index + 1].notes) < MaxDocNotes
    /\ doc' = [doc EXCEPT !.tracks[index + 1].notes = Append(@, DocNote),
                          !.last = [op |-> "add_note", index |-> index, raised |-> FALSE]]
    /\ UNCHANGED <<libVars, engVars, prjVars, bus, trk, constructed, xf>>

\* the caller sets muted, solo, volume and pan of project.tracks[index]
SetMixing(index, mix) ==
    /\ InRange(index)
    /\ MixOf(doc.tracks[index + 1]) # mix
    /\ doc' = [doc EXCEPT !.tracks[index + 1].muted = mix.muted,
                          !.tracks[index + 1].solo = mix.solo,
                          !.tracks[index + 1].volume = mix.volume,
                          !.tracks[index + 1].pan = mix.pan,
                          !.last = [op |-> "set_mixing", index |-> index, raised |-> FALSE]]
    /\ UNCHANGED <<libVars, engVars, prjVars, bus, trk, constructed, xf>>

\* the caller sets project.name
Rename(name) ==
    /\ doc.name # name
    /\ doc' = [doc EXCEPT !.name = name,
                          !.last = [op |-> "rename", index |-> 0, raised |-> FALSE]]
    /\ UNCHANGED <<libVars, engVars, prjVars, bus, trk, constructed, xf>>

\* the dictionary save_project writes for a note, and Note(**note_data)
NoteData(note) ==
    [lyric |-> note.lyric, pitch |-> note.pitch, start_time |-> note.start_time,
     duration |-> note.duration, velocity |-> note.velocity, flags |-> note.flags]
NoteFrom(note_data) ==
    PostInit([lyric |-> note_data.lyric, pitch |-> note_data.pitch,
              start_time |-> note_data.start_time, duration |-> note_data.duration,
              velocity |-> note_data.velocity, flags |-> note_data.flags])

\* project_data of save_project (lines 90-110): the name, asdict(settings) and,
\* for each track, its name, its voice_library_path and its notes
ProjectData(p) ==
    [name |-> p.name,
     settings |-> [tempo |-> p.settings.tempo, time_signature |-> p.settings.time_signature,
                   sample_rate |-> p.settings.sample_rate,
                   total_duration |-> p.settings.total_duration,
                   max_tracks |-> p.settings.max_tracks],
     tracks |-> [i \in 1..Len(p.tracks) |->
                   [name |-> p.tracks[i].name,
                    voice_library_path |-> p.tracks[i].voice_library_path,
                    notes |-> [j \in 1..Len(p.tracks[i].notes) |->
                                 NoteData(p.tracks[i].notes[j])]]]]

\* the tracks load_project builds from project_data (lines 124-130)
TracksFrom(project_data) ==
    [i \in 1..Len(project_data.tracks) |->
       [NewTrack(project_data.tracks[i].name, project_data.tracks[i].voice_library_path)
          EXCEPT !.notes = [j \in 1..Len(project_data.tracks[i].notes) |->
                              NoteFrom(project_data.tracks[i].notes[j])]]]

\* Project.save_project: the file holds project_data
SaveProject ==
    /\ doc' = [doc EXCEPT
                 !.file = ProjectData(doc),
                 !.saved = [name |-> doc.name, settings |-> doc.settings,
                            tracks |-> doc.tracks],
                 !.last = [op |-> "save_project", index |-> 0, raised |-> FALSE]]
    /\ UNCHANGED <<libVars, engVars, prjVars, bus, trk, constructed, xf>>

\* Project.load_project: open() raises when nothing has been written
LoadProject ==
    /\ doc' = IF doc.file = NoFile
              THEN [doc EXCEPT
                      !.last = [op |-> "load_project", index |-> 0, raised |-> TRUE]]
              ELSE [doc EXCEPT
                      !.name = doc.file.name,
                      !.settings = doc.file.settings,
                      !.tracks = TracksFrom(doc.file),
                      !.last = [op |-> "load_project", index |-> 0, raised |-> FALSE]]
    /\ UNCHANGED <<libVars, engVars, prjVars, bus, trk, constructed, xf>>

NextFile ==
    \/ \E name \in TrackNames : AddNamedTrack(name, "lib")
    \/ RemoveTrack(0)
    \/ SetCurrentTrack(1)
    \/ \E index \in 0..(SettingsMaxTracks - 1) : AddNoteTo(index)
    \/ \E index \in 0..(SettingsMaxTracks - 1), mix \in GivenMixes : SetMixing(index, mix)
    \/ \E name \in ProjectNames : Rename(name)
    \/ SaveProject
    \/ LoadProject

SpecFile == Init /\ [][NextFile]_vars

Loaded == doc.last.op = "load_project" /\ ~doc.last.raised

\* C30: saving a project with save_project and loading the file with
\* load_project restores the project: the same name and settings, and the same
\* tracks in the same order, each with its name, voice library path, notes and
\* its mixing state (muted, solo, volume, pan)
C30_RoundTripRestores ==
    Loaded =>
        /\ doc.name = doc.saved.name
        /\ doc.settings = doc.saved.settings
        /\ doc.tracks = doc.saved.tracks

\* the part of C30 that holds: the name, the settings and, track by track in the
\* same order, the name, the voice library path and the notes are those saved;
\* the mixing state is that of a new Track
C30_ContentRestored ==
    Loaded =>
        /\ doc.name = doc.saved.name
        /\ doc.settings = doc.saved.settings
        /\ Len(doc.tracks) = Len(doc.saved.tracks)
        /\ \A i \in 1..Len(doc.tracks) :
              /\ doc.tracks[i].name = doc.saved.tracks[i].name
              /\ doc.tracks[i].voice_library_path = doc.saved.tracks[i].voice_library_path
              /\ doc.tracks[i].notes = doc.saved.tracks[i].notes
              /\ MixOf(doc.tracks[i]) = MixOf(NewTrack("", ""))

\* C17: load_sample decodes a sample at most once and raises nothing: once a
\* sample's buffer is set it holds the decoded audio or, when decoding failed,
\* one second of silence at the engine's sample rate
C17_DecodedOrSilenceAtEngineRate ==
    \A path \in DOMAIN sample_data :
        sample_data[path] # 0 =>
            heap[sample_data[path]] =
                IF DecodeTable[path].ok
                THEN Buf(DecodeTable[path].len, <<Tok("decode", path, 0)>>)
                ELSE Zeros(SampleRate)

\* the part of C17 that holds: a buffer, once set, is never decoded again nor changed
C17_Step ==
    \A path \in DOMAIN sample_data :
        sample_data[path] # 0 =>
            /\ sample_data'[path] # 0
            /\ heap'[sample_data'[path]] = heap[sample_data[path]]
C17_BufferSetOnce == [][C17_Step]_vars

\* C16: every Note has a strictly positive duration once constructed: a duration
\* <= 0 handed to the constructor is replaced by 0.1, a positive one is kept
C16_DurationPositiveOnceConstructed ==
    constructed # NoNote =>
        /\ FGt(constructed.note.duration, Fin(0))
        /\ FLe(constructed.given.duration, Fin(0))
               => constructed.note.duration = Fin(MinDuration)
        /\ FGt(constructed.given.duration, Fin(0))
               => constructed.note.duration = constructed.given.duration

\* the part of C16 that holds: the two cases the claim names, and nothing raised
C16_RealDurationsClamped ==
    (constructed # NoNote /\ constructed.given.duration.k # "nan") =>
        /\ FGt(constructed.note.duration, Fin(0))
        /\ FLe(constructed.given.duration, Fin(0))
               => constructed.note.duration = Fin(MinDuration)
        /\ FGt(constructed.given.duration, Fin(0))
               => constructed.note.duration = constructed.given.duration

\* --- the values of a few notes and tracks on the way to the master buffer ---
MaxBusSteps == 4
\* what a note's pipeline hands to final_safety_check
RawPatterns ==
    { <<NaN, PosInf, Fin(-300), Fin(60)>>,
      <<Fin(120), Fin(120), Fin(120), Fin(120)>>,
      <<NegInf, Fin(0), Fin(0), Fin(60)>> }
RawNotes == {[i \in 1..BusLen |-> pat[((i - 1) % Len(pat)) + 1]] : pat \in RawPatterns}
\* Track.volume and Track.pan, within the ranges of the data model
TrackMixes == {[volume |-> 100, pan |-> 0], [volume |-> 50, pan |-> 0],
               [volume |-> 100, pan |-> 50]}
EqOutcomes == {[fails |-> TRUE, gain |-> 0], [fails |-> FALSE, gain |-> 70],
               [fails |-> FALSE, gain |-> 120]}
MasterEnvs == {[eq |-> eq, fault |-> f] : eq \in EqOutcomes, f \in {NoFault} \cup MasterFaults}

\* synthesize_track adds a note: track_output[...] += note_audio, note_audio as
\* final_safety_check left it
AddNoteValues(raw) ==
    /\ bus.pc = "mixing"
    /\ bus.steps < MaxBusSteps
    /\ bus' = [bus EXCEPT !.track = AddValues(@, FinalSafetyCheckValues(raw)),
                          !.steps = @ + 1]
    /\ UNCHANGED <<libVars, engVars, prjVars, trk, constructed, xf, doc>>

\* synthesize_project mixes the track: apply_track_mix, master_output += track_audio
MixTrackValues(volume, pan) ==
    /\ bus.pc = "mixing"
    /\ bus.steps < MaxBusSteps
    /\ bus' = [bus EXCEPT !.master = AddValues(@, ApplyTrackMixValues(bus.track, volume, pan)),
                          !.track = Silent(BusLen),
                          !.steps = @ + 1]
    /\ UNCHANGED <<libVars, engVars, prjVars, trk, constructed, xf, doc>>

\* synthesize_project ends: it returns master_processing(master_output)
ProcessMaster(env) ==
    /\ bus.pc = "mixing"
    /\ \E m \in {MasterStages(bus.master, env)} :
          bus' = [bus EXCEPT !.out = MasterProcessing(bus.master, env),
                             !.stages = m.stages,
                             !.env = env,
                             !.pc = IF m.raised THEN "failed" ELSE "done"]
    /\ UNCHANGED <<libVars, engVars, prjVars, trk, constructed, xf, doc>>

\* export_audio(audio_data, filepath): nan_to_num, clip to [-1, 1], the 16-bit
\* conversion, and the file written
ExportAudio(audio) ==
    /\ bus.pc \in {"done", "failed"}
    /\ bus.exported = NotExported
    /\ bus' = [bus EXCEPT !.exported = [audio |-> audio, pcm |-> ExportPcm(audio)]]
    /\ UNCHANGED <<libVars, engVars, prjVars, trk, constructed, xf, doc>>

\* the main program exports what synthesize_project returned
ExportOutput == ExportAudio(bus.out)

NextMaster ==
    \/ \E raw \in RawNotes : AddNoteValues(raw)
    \/ \E mix \in TrackMixes : MixTrackValues(mix.volume, mix.pan)
    \/ \E env \in MasterEnvs : ProcessMaster(env)
    \/ ExportOutput
    \/ \E audio \in RawNotes : ExportAudio(audio)

SpecMaster == Init /\ [][NextMaster]_vars

SpecLib == Init /\ [][NextLib]_vars

(***************************************************************************)
(* Properties of synthesize_note_safe and its cache                        *)
(***************************************************************************)
CacheKeys(cache) == {cache[i].key : i \in 1..Len(cache)}
KeyOrder(cache) == [i \in 1..Len(cache) |-> cache[i].key]
ReturnKinds == {"hit", "empty", "error", "rendered"}

\* C2: the render cache never holds more than 100 entries
C2_CacheAtMostLimit == Len(sample_cache) <= CacheLimit

\* the sample of the last call, as decoded, and the sample count asked for
LastCurrent == heap[sample_data[last.key[1]]].len
LastTarget == IntSamples(last.duration)

\* C22: when time_stretch_safe falls back to crossfade_repeat to shorten a buffer
\* (current length >= target length >= 1, the ratio below 0.5), the call does not
\* fail: the note is the first target-length samples with a fade-out at the cut,
\* not silence
C22_ShorteningNeverFails ==
    (/\ last.kind \in {"rendered", "error"}
     /\ ~last.injected
     /\ LastTarget >= 1
     /\ LastCurrent >= LastTarget
     /\ ~RatioInRange(LastCurrent, LastTarget))
        => last.kind = "rendered" /\ last.len = LastTarget

\* the part of C22 that holds: a cut that leaves at least as many samples as the
\* fade-out is long does not fail
C22_LongEnoughCutSucceeds ==
    (/\ last.kind \in {"rendered", "error"}
     /\ ~last.injected
     /\ LastTarget >= Min(LastCurrent - LastTarget, MaxFadeOut)
     /\ LastCurrent >= LastTarget
     /\ ~RatioInRange(LastCurrent, LastTarget))
        => last.kind = "rendered" /\ last.len = LastTarget

\* C5: on every return path the returned buffer is as long as
\* round(note.duration * sample_rate), within one sample
C5_LengthWithinOne ==
    (last.kind \in ReturnKinds /\ last.duration > 0)
        => /\ heap[ret].len = last.len
           /\ Abs(last.len - RoundSamples(last.duration)) <= 1
\* the pipeline rendered a note whose length was rounded down
C5_Witness ==
    /\ last.kind = "rendered"
    /\ last.duration > 0
    /\ last.len = RoundSamples(last.duration) - 1

\* C6: the stored segment of every resident key is what the first render returned
\* and shares no array with the caller; a hit returns that same content, whatever
\* the caller wrote into the arrays it was handed
C6_HitsAreIdenticalCopies ==
    /\ \A i \in 1..Len(sample_cache) :
          /\ sample_cache[i].ref # ret
          /\ HasRow(ledger, sample_cache[i].key)
          /\ heap[sample_cache[i].ref] = RowOf(ledger, sample_cache[i].key).buf
    /\ last.kind = "hit" => heap[ret] = RowOf(ledger, last.key).buf
\* a hit right after the caller wrote into the array returned for the same key
C6_Witness ==
    /\ last.kind = "hit"
    /\ last.rewritten

\* the keys of the cache in order, each with the content stored for it
CacheContent(h, cache) ==
    [i \in 1..Len(cache) |-> [key |-> cache[i].key, buf |-> h[cache[i].ref]]]

\* C11: a call in which a stage raised (the exception handler ran) returns zeros of
\* int(note.duration * sample_rate) samples in an array of its own, and leaves the
\* cache as it was: the same keys in the same order with the same contents, and
\* nothing inserted; no call ends by raising to its caller
C11_Step ==
    /\ last'.kind \in ReturnKinds \cup {"write", "none"}
    /\ last'.kind = "error" =>
          /\ ret' # 0
          /\ heap'[ret'] = Zeros(IntSamples(last'.duration))
          /\ \A i \in 1..Len(sample_cache') : sample_cache'[i].ref # ret'
          /\ CacheContent(heap', sample_cache') = CacheContent(heap, sample_cache)
          /\ stamp' = stamp
          /\ ledger' = ledger
C10_Step ==
    /\ \A k \in CacheKeys(sample_cache) \ CacheKeys(sample_cache') :
          \A i \in 1..Len(ledger) : RowOf(ledger, k).stamp <= ledger[i].stamp
    /\ last'.kind = "hit" =>
          /\ KeyOrder(sample_cache') = KeyOrder(sample_cache)
          /\ ledger' = ledger
    /\ \A k \in CacheKeys(sample_cache') \ CacheKeys(sample_cache) :
          last'.kind = "rendered" /\ last'.key = k
    /\ stamp' # stamp =>
          last'.kind = "rendered" /\ last'.key \notin CacheKeys(sample_cache)
C10_OldestInsertedFirst == [][C10_Step]_vars
\* a hit after an entry was evicted
C10_Witness == stamp > Len(sample_cache) /\ last.kind = "hit"

(***************************************************************************)
(* Properties of synthesize_project                                        *)
(***************************************************************************)
RenderedSet == {rendered[n] : n \in 1..Len(rendered)}
\* the places of the additions ( += ) in the history of a buffer
Adds(buf) == {i \in 1..Len(buf.data) : buf.data[i].op = "add"}
\* tracks whose voice library can be loaded
Loadable(track) ==
    track.voice_library_path # NoLibraryPath /\ LibraryFiles(track.voice_library_path) # <<>>
Audible(tracks) == {i \in 1..Len(tracks) : ~tracks[i].muted /\ Loadable(tracks[i])}

\* C13: a call of synthesize_project on a project with a negative total duration
\* raises, with no library loaded, no track mixed and the cache as it was
C13_NegativeDurationFailsFast ==
    (project.total_duration < 0 /\ pc # "idle") =>
        /\ pc = "raised"
        /\ rendered = <<>>
        /\ voice_libraries = begin.voice_libraries
        /\ sample_cache = begin.sample_cache

\* C14: a call on a project with a total duration of zero or more never raises;
\* the loop passes over the tracks without a library path or whose library does
\* not load, which add nothing to the master buffer, and mixes every other
\* non-muted track, before and after them
C14_UnloadableTracksAreSkipped ==
    /\ project.total_duration >= 0 => pc # "raised"
    /\ pc \in {"tracks", "done"} =>
          /\ \A i \in RenderedSet : ~project.tracks[i].muted /\ Loadable(project.tracks[i])
          /\ Cardinality(Adds(master_output)) = Len(rendered)
    /\ pc = "tracks" => RenderedSet = {i \in Audible(project.tracks) : i < idx}
    /\ pc = "done" => RenderedSet = Audible(project.tracks)
\* a track that cannot be loaded, and a later track that was mixed
C14_Witness ==
    /\ pc = "done"
    /\ project.total_duration >= 0
    /\ \E i, j \in 1..Len(project.tracks) :
          /\ i < j
          /\ ~project.tracks[i].muted /\ ~Loadable(project.tracks[i])
          /\ j \in RenderedSet

\* C1: when a non-muted track is solo, the tracks mixed into the master buffer are
\* the non-muted solo tracks; otherwise they are all the non-muted tracks
C1_SoloPolicy ==
    pc = "done" =>
        RenderedSet = IF AnySolo(project.tracks)
                      THEN {i \in Audible(project.tracks) : project.tracks[i].solo}
                      ELSE Audible(project.tracks)

\* the projects that differ from p only in the notes and the solo flag of muted tracks
MutedVariants(p) ==
    {q \in [1..Len(p.tracks) -> TrackChoices] :
        \A i \in 1..Len(p.tracks) :
            IF p.tracks[i].muted
            THEN /\ q[i].muted
                 /\ q[i].voice_library_path = p.tracks[i].voice_library_path
                 /\ q[i].volume = p.tracks[i].volume
                 /\ q[i].pan = p.tracks[i].pan
            ELSE q[i] = p.tracks[i]}

\* C7: no muted track is mixed, and synthesize_project returns the same buffer for
\* every project that differs only in the notes and the solo flag of muted tracks
C7_MutedTracksContributeNothing ==
    pc = "done" =>
        /\ \A i \in RenderedSet : ~project.tracks[i].muted
        /\ \A q \in MutedVariants(project) :
              SynthesizeProject([project EXCEPT !.tracks = q], begin) = master_output
\* a muted track with notes next to a track that was mixed
C7_Witness ==
    /\ pc = "done"
    /\ rendered # <<>>
    /\ \E i \in 1..Len(project.tracks) :
          project.tracks[i].muted /\ project.tracks[i].notes # <<>>
    /\ Cardinality(MutedVariants(project)) > 1

(***************************************************************************)
(* Properties of synthesize_track                                          *)
(***************************************************************************)
\* no sample can be found for the lyric: it has no samples and no stored lyric is
\* similar to it
Unresolvable(lyric) == ~HasKey(samples, lyric) /\ SimilarTo(lyric) = {}

\* the orders in which the notes of a list can be processed
Reorderings(list) ==
    {[i \in 1..Len(list) |-> list[p[i]]] : p \in Permutations(1..Len(list))}
\* two buffers of the same length built from the same additions, in any order
Count(data, tok) == Cardinality({i \in 1..Len(data) : data[i] = tok})
SameMix(a, b) ==
    /\ a.len = b.len
    /\ Len(a.data) = Len(b.data)
    /\ \A i \in 1..Len(a.data) : Count(a.data, a.data[i]) = Count(b.data, a.data[i])
\* synthesize_track on the notes in another order, from the library and the
\* engine as they were when the call was made
TrackOutputFor(list) ==
    NoteLoop([samples |-> trk.begin.samples, heap |-> trk.begin.heap,
              sample_data |-> trk.begin.sample_data,
              sample_cache |-> trk.begin.sample_cache, out |-> Zeros(trk.first)],
             list).out

\* the notes for which a sample was chosen so far, in the order of the track, and
\* the additions made to track_output, in the order in which they were made
MixedNotes == SelectSeq([i \in 1..Len(trk.picks) |-> trk.notes[i]],
                        LAMBDA note : \E i \in 1..Len(trk.picks) :
                                        trk.notes[i] = note /\ trk.picks[i] # 0)
Additions == SelectSeq(trk.out.data, LAMBDA tok : tok.op = "add")

\* C23: synthesize_track adds each rendered note into the track buffer, in the
\* notes' order, starting at sample index round(start_time * sample_rate); the
\* additions accumulate, so that overlapping notes sum
C23_AddedAtRoundedStart ==
    trk.pc \in {"notes", "done"} =>
        /\ Len(Additions) = Len(MixedNotes)
        /\ \A k \in 1..Len(Additions) :
              Additions[k].at = RoundSamples(MixedNotes[k].start_time)

\* the part of C23 that holds: one addition per mixed note, in the notes' order,
\* at int(start_time * sample_rate), and no addition is ever undone
C23_AddedAtTruncatedStart ==
    trk.pc \in {"notes", "done"} =>
        /\ Len(Additions) = Len(MixedNotes)
        /\ \A k \in 1..Len(Additions) :
              /\ Additions[k].at = IntSamples(MixedNotes[k].start_time)
              /\ Additions[k].src.len = IntSamples(MixedNotes[k].duration)

\* C24: during synthesize_track the track buffer never shrinks.  It starts with
\* the sample count of the maximum start + duration over the notes (10 seconds
\* for a track without notes); a turn of the loop makes it longer only when the
\* note added ends after it, and keeps what was written; at the end it reaches
\* the end of every note that was mixed
C24_Step ==
    (trk.pc = "notes" /\ trk'.pc = "notes") =>
        /\ trk'.out.len >= trk.out.len
        /\ SubSeq(trk'.out.data, 1, Len(trk.out.data)) = trk.out.data
        /\ trk'.out.len > trk.out.len =>
              /\ Len(trk'.out.data) = Len(trk.out.data) + 1
              /\ LET tok == trk'.out.data[Len(trk'.out.data)]
                 IN  tok.op = "add" /\ tok.at + tok.src.len = trk'.out.len
C24_Lengths ==
    /\ trk.pc \in {"notes", "done"} =>
          /\ trk.first \in IF trk.notes = <<>> THEN {SilentSeconds * SampleRate}
                            ELSE {IntSamples(TrackDuration(trk.notes)),
                                  IntSamples(TrackDuration(trk.notes)) - 1}
          /\ trk.out.len >= trk.first
    /\ trk.pc = "done" =>
          \A k \in 1..Len(Additions) :
              Additions[k].at + Additions[k].src.len <= trk.out.len
C24_BufferNeverShrinks == [][C24_Step]_vars /\ []C24_Lengths
\* a note ended after the buffer, which was extended and kept an earlier note
C24_Witness ==
    /\ trk.pc = "done"
    /\ trk.out.len > trk.first
    /\ Len(Additions) = 2
    /\ Additions[2].at + Additions[2].src.len = trk.out.len

\* C27: rendering never modifies a sample's decoded buffer: whatever notes were
\* rendered from it, sample.sample_data is what the first decode gave
C27_SampleDataUntouched ==
    \A path \in DOMAIN sample_data :
        sample_data[path] # 0 => heap[sample_data[path]] = Decode(path)
\* two different notes were rendered from one decoded sample
C27_Witness ==
    /\ trk.pc = "done"
    /\ Len(trk.picks) = 2
    /\ trk.picks[1] = trk.picks[2]
    /\ trk.picks[1] # 0
    /\ DecodeTable[trk.picks[1]].ok
    /\ sample_data[trk.picks[1]] # 0
    /\ trk.notes[1] # trk.notes[2]
    /\ Len(sample_cache) = 2

\* C15: synthesize_track gives the same buffer, up to the order of the additions,
\* whatever the order of the notes of the track
C15_NoteOrderIndependent ==
    (trk.pc = "done" /\ trk.notes # <<>>) =>
        \A list \in Reorderings(trk.notes) : SameMix(TrackOutputFor(list), trk.out)

\* C12: a turn of the loop for a note whose lyric cannot be resolved leaves
\* track_output and the engine as they were and goes on to the next note; a turn
\* for any other note chooses a sample and adds its rendering at the note's start;
\* the call returns only after a turn for every note
C12_Step ==
    /\ (trk.pc = "notes" /\ trk'.pos = trk.pos + 1) =>
          IF Unresolvable(trk.notes[trk.pos].lyric)
          THEN /\ trk'.out = trk.out
               /\ trk'.picks = Append(trk.picks, 0)
               /\ trk'.pc = "notes"
               /\ <<samples, heap, sample_data, sample_cache>>'
                     = <<samples, heap, sample_data, sample_cache>>
          ELSE /\ trk'.picks[trk.pos] # 0
               /\ Len(trk'.out.data) = Len(trk.out.data) + 1
               /\ trk'.out.data[Len(trk'.out.data)].op = "add"
               /\ trk'.out.data[Len(trk'.out.data)].at
                     = IntSamples(trk.notes[trk.pos].start_time)
               /\ trk'.out.data[Len(trk'.out.data)].src.len
                     = IntSamples(trk.notes[trk.pos].duration)
    /\ (trk'.pc = "done" /\ trk'.notes # <<>>) =>
          /\ Len(trk'.picks) = Len(trk'.notes)
          /\ Cardinality(Adds(trk'.out))
                = Cardinality({i \in 1..Len(trk'.picks) : trk'.picks[i] # 0})
C12_UnresolvedNoteAddsNothing == [][C12_Step]_vars
\* an unresolved note, then a note that was rendered and mixed
C12_Witness ==
    /\ trk.pc = "done"
    /\ \E i, j \in 1..Len(trk.picks) : i < j /\ trk.picks[i] = 0 /\ trk.picks[j] # 0

\* the number of stages that completed before the one that raised
Completed(fault) ==
    CASE fault = "dc" -> 0
      [] fault = "compressor" -> 2
      [] fault = "limiter" -> 3
      [] fault = "normalize" -> 4
      [] OTHER -> 5

CompressorKnee == 25
\* C20: advanced_compression makes every sample whose magnitude is above 0.25
\* strictly smaller in magnitude, keeps its sign, and leaves the samples at or
\* below 0.25 unchanged
C20_CompressorReducesAboveKnee ==
    Len(bus.stages) >= 3 =>
        \A i \in 1..Len(bus.stages[2]) :
            LET x == bus.stages[2][i]
                y == bus.stages[3][i]
            IN  IF FGt(FAbs(x), Fin(CompressorKnee))
                THEN FGt(FAbs(x), FAbs(y)) /\ Sign(y.v) = Sign(x.v)
                ELSE y = x

\* C18: export_audio writes, for every sample x, round(x * 32767) of x clamped to
\* [-1, 1]: a value in [-32767, 32767] that differs from x * 32767 by at most 1/2
C18_ExportRounds ==
    \A i \in 1..Len(bus.exported.pcm) :
        LET x == ExportClip(NanToNum(bus.exported.audio[i]))
            y == bus.exported.pcm[i]
        IN  /\ y \in (-PcmScale)..PcmScale
            /\ 2 * Abs(100 * y - x.v * PcmScale) <= 100
\* the part of C18 that holds: the range, and an error below one unit
C18_ExportInRange ==
    \A i \in 1..Len(bus.exported.pcm) :
        LET x == ExportClip(NanToNum(bus.exported.audio[i]))
            y == bus.exported.pcm[i]
        IN  /\ y \in (-PcmScale)..PcmScale
            /\ Abs(100 * y - x.v * PcmScale) < 100

\* C25: export_audio, like the safety clamp of a note, replaces every non-finite
\* value (NaN, +Inf, -Inf) with zero before clipping: a non-finite sample gives 0
\* in the exported PCM
C25_NonFiniteBecomesZero ==
    \A i \in 1..Len(bus.exported.pcm) :
        ~IsFinite(bus.exported.audio[i]) => bus.exported.pcm[i] = 0

\* the part of C25 that holds: a NaN gives 0; an infinity gives full scale of its
\* sign
C25_NaNBecomesZero ==
    \A i \in 1..Len(bus.exported.pcm) :
        /\ bus.exported.audio[i] = NaN => bus.exported.pcm[i] = 0
        /\ bus.exported.audio[i] = PosInf => bus.exported.pcm[i] = PcmScale
        /\ bus.exported.audio[i] = NegInf => bus.exported.pcm[i] = -PcmScale

\* C4: the buffer synthesize_project returns has no NaN and no Inf, and all its
\* values lie in [-1, 1] (volume and pan within the ranges of the data model)
C4_MasterFiniteAndBounded ==
    bus.pc = "done" =>
        \A i \in 1..Len(bus.out) : IsFinite(bus.out[i]) /\ Abs(bus.out[i].v) <= 100
\* a mix that went over full scale before master_processing
C4_Witness ==
    /\ bus.pc = "done"
    /\ \E i \in 1..Len(bus.master) : Abs(bus.master[i].v) > 100
    /\ \E i \in 1..Len(bus.out) : Abs(bus.out[i].v) = TargetLevel

=============================================================================
